---- MODULE Spec2Model ----
(***************************************************************************)
(* Model of the e-mail validation and comparison pipeline:                 *)
(*   utils.NormalizeEmail, utils.ValidateEmailDetailed,                    *)
(*   utils.ValidateEmailsBatch (worker pool over a job channel),           *)
(*   services.validateEmailList, services.compareEmailEntries and the      *)
(*   tail of services.ValidateEmails that builds the ValidationResult.     *)
(*                                                                         *)
(* A Go string is a sequence of one-character strings, so that trimming,   *)
(* lower-casing and splitting are computed and not assumed.                *)
(***************************************************************************)
EXTENDS Integers, Sequences, FiniteSets, TLC

(***************************************************************************)
(* Bounds of the model.                                                    *)
(***************************************************************************)
\* longest input handed to ValidateEmailsBatch
MaxBatch == 2
\* longest entry list of one file handed to compareEmailEntries
MaxEntries == 2

(***************************************************************************)
(* Strings (package strings).                                              *)
(***************************************************************************)
UpperChars == <<"A","B","C","D","E","F","G","H","I","J","K","L","M",
                "N","O","P","Q","R","S","T","U","V","W","X","Y","Z">>
LowerChars == <<"a","b","c","d","e","f","g","h","i","j","k","l","m",
                "n","o","p","q","r","s","t","u","v","w","x","y","z">>

\* unicode.IsSpace on the characters of the model's alphabet
IsSpace(c) == c \in {" ", "\t", "\n", "\r"}

\* unicode.ToLower on one character
ToLowerChar(c) ==
    IF \E k \in 1..Len(UpperChars) : UpperChars[k] = c
    THEN LowerChars[CHOOSE k \in 1..Len(UpperChars) : UpperChars[k] = c]
    ELSE c

\* strings.ToLower
ToLower(s) == [k \in 1..Len(s) |-> ToLowerChar(s[k])]

RECURSIVE TrimLeft(_)
TrimLeft(s) ==
    IF s # <<>> /\ IsSpace(Head(s)) THEN TrimLeft(Tail(s)) ELSE s

RECURSIVE TrimRight(_)
TrimRight(s) ==
    IF s # <<>> /\ IsSpace(s[Len(s)])
    THEN TrimRight(SubSeq(s, 1, Len(s) - 1))
    ELSE s

\* strings.TrimSpace
TrimSpace(s) == TrimRight(TrimLeft(s))

\* strings.Index(s, c) for a one-character separator: 0-based, -1 when absent
Index(s, c) ==
    IF \E k \in 1..Len(s) : s[k] = c
    THEN (CHOOSE k \in 1..Len(s) : s[k] = c /\ \A j \in 1..(k-1) : s[j] # c) - 1
    ELSE -1

\* strings.Split(s, c) for a one-character separator: always at least one part
RECURSIVE Split(_, _)
Split(s, c) ==
    IF Index(s, c) < 0
    THEN <<s>>
    ELSE <<SubSeq(s, 1, Index(s, c))>>
         \o Split(SubSeq(s, Index(s, c) + 2, Len(s)), c)

\* strings.Replace(s, c, "", -1): every occurrence of c removed
RemoveAll(s, c) == SelectSeq(s, LAMBDA x : x # c)

GmailDomain == <<"g","m","a","i","l",".","c","o","m">>

(***************************************************************************)
(* utils.NormalizeEmail                                                    *)
(***************************************************************************)
\* NormalizeEmail that also cuts at a '+' in first place (plusIndex >= 0)
NormalizeEmailCutsLeadingPlus(email) ==
    LET e        == ToLower(TrimSpace(email))
        parts    == Split(e, "@")
        username == RemoveAll(parts[1], ".")
        plusIndex == Index(username, "+")
    IN  IF Len(parts) = 2 /\ parts[2] = GmailDomain
        THEN (IF plusIndex >= 0 THEN SubSeq(username, 1, plusIndex) ELSE username)
             \o <<"@">> \o GmailDomain
        ELSE e

NormalizeEmail(email) ==
    LET Normalized(e) ==
          LET parts    == Split(e, "@")
              username == RemoveAll(parts[1], ".")
              plusIndex == Index(username, "+")
          IN  IF Len(parts) = 2 /\ parts[2] = GmailDomain
              THEN (IF plusIndex > 0 THEN SubSeq(username, 1, plusIndex) ELSE username)
                   \o <<"@">> \o GmailDomain
              ELSE e
    \* e is computed once, then used
    IN  CHOOSE r \in { Normalized(e) : e \in {ToLower(TrimSpace(email))} } : TRUE

(***************************************************************************)
(* utils.ValidateEmailDetailed, in the pieces the worker steps use.        *)
(***************************************************************************)
\* the zero value of EmailValidationResult
ZeroResult ==
    [Email |-> <<>>, IsValid |-> FALSE, IsDisposable |-> FALSE,
     NormalizedEmail |-> <<>>, Reason |-> ""]

\* ResetValue whose key is only the lower-cased address
ResetValueLowerOnly(email) ==
    [Email |-> email, IsValid |-> FALSE, IsDisposable |-> FALSE,
     NormalizedEmail |-> ToLower(email), Reason |-> ""]

\* the value written into the pooled object; email is already trimmed
ResetValue(email) ==
    [Email |-> email, IsValid |-> FALSE, IsDisposable |-> FALSE,
     NormalizedEmail |-> NormalizeEmail(email), Reason |-> ""]

\* Classify that accepts every address with at least one '@'
ClassifyAtLeastOneAt(result, email) ==
    IF email = <<>>
    THEN [result EXCEPT !.Reason = "Email cannot be empty"]
    ELSE IF Len(Split(email, "@")) < 2
    THEN [result EXCEPT !.Reason = "Email must contain exactly one @ symbol"]
    ELSE [result EXCEPT !.IsValid = TRUE]

\* the classification of the copy taken from the pooled object
Classify(result, email) ==
    IF email = <<>>
    THEN [result EXCEPT !.Reason = "Email cannot be empty"]
    ELSE IF Len(Split(email, "@")) # 2
    THEN [result EXCEPT !.Reason = "Email must contain exactly one @ symbol"]
    ELSE [result EXCEPT !.IsValid = TRUE]

\* one call on its own: no other goroutine touches the pooled object
ValidateEmailDetailed(email) ==
    Classify(ResetValue(TrimSpace(email)), TrimSpace(email))

(***************************************************************************)
(* State.                                                                  *)
(***************************************************************************)
VARIABLES
    \* ---- utils.ValidateEmailsBatch ----
    emails,         \* the argument
    results,        \* the pre-sized output slice
    jobs,           \* the buffered channel of indices (0-based), oldest first
    jobsClosed,     \* close(jobs) has happened
    wgCount,        \* the WaitGroup counter
    bpc,            \* where the calling goroutine is
    mainI,          \* its loop variable (w, then i)
    wpc,            \* where each worker goroutine is
    widx,           \* the index a worker took from jobs
    wptr,           \* the pooled object a worker holds (0: none)
    wres,           \* the worker's copy of the pooled object (result)
    processedCount, \* each worker's processedCount
    takes,          \* how many times each index was received from jobs
    writes,         \* how many times each slot of results was assigned
    poolFree,       \* objects lying in emailValidationPool
    poolObj,        \* contents of every pooled object ever allocated
    returned,       \* the value ValidateEmailsBatch returned
    \* ---- services.ValidateEmails from the second join on ----
    firstEntries, secondEntries,
    firstMap, secondMap,
    matching, missingInFirst, missingInSecond,
    summary,
    cpc,            \* where compareEmailEntries / ValidateEmails is
    ci,             \* index of the next entry of the running loop (1-based)
    mapTodo,        \* keys of firstMap the range loop has not yet produced
    result          \* the *ValidationResult returned, or NilResult

batchVars == <<emails, results, jobs, jobsClosed, wgCount, bpc, mainI, wpc, widx,
               wptr, wres, processedCount, poolFree, poolObj, returned, takes,
               writes>>
cmpVars   == <<firstEntries, secondEntries, firstMap, secondMap, matching,
               missingInFirst, missingInSecond, summary, cpc, ci, mapTodo, result>>

\* the value of a variable that holds nothing yet
NoResult == "none"
\* the same for the variables that hold a struct once set
NilResult == [nil |-> TRUE]

(***************************************************************************)
(* utils.ValidateEmailsBatch                                               *)
(***************************************************************************)
\* the cap on the number of workers
MaxWorkers == 10

\* utils.min
min(a, b) == IF a < b THEN a ELSE b

\* inputs of the batch model: padded, gmail, no '@'
BatchEmails ==
    { <<" ","A","@","x"," ">>,
      <<"a",".","b","+","c","@","g","m","a","i","l",".","c","o","m">>,
      <<"a","b">> }

SeqsUpTo(S, n) == UNION { [1..k -> S] : k \in 0..n }

\* longest batch whose worker start-up is followed
MaxSpawn == 11

\* every workerID the start-up loop can reach
Workers == 0..(MaxSpawn - 1)
Objects == 1..min(MaxBatch, MaxWorkers)

\* workerCount without the cap
workerCountUncapped == Len(emails)

workerCount == min(Len(emails), MaxWorkers)

\* state at the first iteration of the "Start workers" loop
InitBatch ==
    /\ emails \in SeqsUpTo(BatchEmails, MaxBatch)
    /\ results = [k \in 1..Len(emails) |-> ZeroResult]
    /\ jobs = <<>>
    /\ jobsClosed = FALSE
    /\ wgCount = 0
    /\ bpc = "spawn"
    /\ mainI = 0
    /\ wpc = [w \in Workers |-> "none"]
    /\ widx = [w \in Workers |-> 0]
    /\ wptr = [w \in Workers |-> 0]
    /\ wres = [w \in Workers |-> ZeroResult]
    /\ processedCount = [w \in Workers |-> 0]
    /\ takes = [k \in 1..Len(emails) |-> 0]
    /\ writes = [k \in 1..Len(emails) |-> 0]
    /\ poolFree = {}
    /\ poolObj = [o \in Objects |-> ZeroResult]
    /\ returned = NoResult

\* the address a long batch repeats
SpawnEmail == <<"a","@","x">>

\* batches of every length up to MaxSpawn, at the first iteration of the
\* "Start workers" loop
InitSpawn ==
    /\ emails \in { [k \in 1..n |-> SpawnEmail] : n \in 0..MaxSpawn }
    /\ results = [k \in 1..Len(emails) |-> ZeroResult]
    /\ jobs = <<>>
    /\ jobsClosed = FALSE
    /\ wgCount = 0
    /\ bpc = "spawn"
    /\ mainI = 0
    /\ wpc = [w \in Workers |-> "none"]
    /\ widx = [w \in Workers |-> 0]
    /\ wptr = [w \in Workers |-> 0]
    /\ wres = [w \in Workers |-> ZeroResult]
    /\ processedCount = [w \in Workers |-> 0]
    /\ takes = [k \in 1..Len(emails) |-> 0]
    /\ writes = [k \in 1..Len(emails) |-> 0]
    /\ poolFree = {}
    /\ poolObj = [o \in Objects |-> ZeroResult]
    /\ returned = NoResult

\* the batches followed beyond the start of their workers
SmallBatch == Len(emails) <= MaxBatch

\* for w := 0; w < workerCount; w++ { wg.Add(1); go func(workerID) ... }
MainSpawn ==
    /\ bpc = "spawn"
    /\ IF mainI < workerCount
       THEN /\ wgCount' = wgCount + 1
            /\ wpc' = [wpc EXCEPT ![mainI] = "recv"]
            /\ mainI' = mainI + 1
            /\ bpc' = bpc
       ELSE /\ bpc' = "send"
            /\ mainI' = 0
            /\ UNCHANGED <<wgCount, wpc>>
    /\ UNCHANGED <<emails, results, jobs, jobsClosed, widx, takes, wptr, wres,
                   processedCount, writes, poolFree, poolObj, returned>>

\* for i := range emails { jobs <- i }: blocks while the buffer is full
MainSend ==
    /\ bpc = "send"
    /\ IF mainI < Len(emails)
       THEN /\ Len(jobs) < Len(emails)
            /\ jobs' = Append(jobs, mainI)
            /\ mainI' = mainI + 1
            /\ bpc' = bpc
       ELSE /\ bpc' = "close"
            /\ UNCHANGED <<jobs, mainI>>
    /\ UNCHANGED <<emails, results, jobsClosed, wgCount, wpc, widx, takes, wptr, wres,
                   processedCount, writes, poolFree, poolObj, returned>>

\* MainClose leaving the queue open
MainCloseSkipped ==
    /\ bpc = "close"
    /\ jobsClosed' = jobsClosed
    /\ bpc' = "wait"
    /\ UNCHANGED <<emails, results, jobs, wgCount, mainI, wpc, widx, takes, wptr, wres,
                   processedCount, writes, poolFree, poolObj, returned>>

\* close(jobs)
MainClose ==
    /\ bpc = "close"
    /\ jobsClosed' = TRUE
    /\ bpc' = "wait"
    /\ UNCHANGED <<emails, results, jobs, wgCount, mainI, wpc, widx, takes, wptr, wres,
                   processedCount, writes, poolFree, poolObj, returned>>

\* wg.Wait()
MainWait ==
    /\ bpc = "wait"
    /\ wgCount = 0
    /\ bpc' = "count"
    /\ UNCHANGED <<emails, results, jobs, jobsClosed, wgCount, mainI, wpc, widx, takes,
                   wptr, wres, processedCount, writes, poolFree, poolObj, returned>>

\* the counting loop over results (log only) and return results
MainReturn ==
    /\ bpc = "count"
    /\ returned' = results
    /\ bpc' = "done"
    /\ UNCHANGED <<emails, results, jobs, jobsClosed, wgCount, mainI, wpc, widx, takes,
                   wptr, wres, processedCount, writes, poolFree, poolObj>>

\* WorkerRecv handing out the newest index while the oldest leaves the queue
WorkerRecvNewest(w) ==
    /\ wpc[w] = "recv"
    /\ IF jobs # <<>>
       THEN /\ widx' = [widx EXCEPT ![w] = jobs[Len(jobs)]]
            /\ takes' = [takes EXCEPT ![jobs[Len(jobs)] + 1] = @ + 1]
            /\ jobs' = Tail(jobs)
            /\ wpc' = [wpc EXCEPT ![w] = "get"]
       ELSE /\ jobsClosed
            /\ wpc' = [wpc EXCEPT ![w] = "exit"]
            /\ UNCHANGED <<widx, takes, jobs>>
    /\ UNCHANGED <<emails, results, jobsClosed, wgCount, bpc, mainI, wptr, wres,
                   processedCount, writes, poolFree, poolObj, returned>>

\* for idx := range jobs: take the oldest index, or leave once closed and drained
WorkerRecv(w) ==
    /\ wpc[w] = "recv"
    /\ IF jobs # <<>>
       THEN /\ widx' = [widx EXCEPT ![w] = Head(jobs)]
            /\ takes' = [takes EXCEPT ![Head(jobs) + 1] = @ + 1]
            /\ jobs' = Tail(jobs)
            /\ wpc' = [wpc EXCEPT ![w] = "get"]
       ELSE /\ jobsClosed
            /\ wpc' = [wpc EXCEPT ![w] = "exit"]
            /\ UNCHANGED <<widx, takes, jobs>>
    /\ UNCHANGED <<emails, results, jobsClosed, wgCount, bpc, mainI, wptr, wres,
                   processedCount, writes, poolFree, poolObj, returned>>

\* objects no goroutine holds and the pool does not hold: what New() can return
Unallocated == { o \in Objects : o \notin poolFree /\ \A v \in Workers : wptr[v] # o }

\* emailValidationPool.Get(): an object of the pool, which leaves the pool, or
\* a new one (the pool is empty, or the runtime has dropped its objects)
PoolGet(o) ==
    \/ o \in poolFree
    \/ Unallocated # {} /\ o = CHOOSE u \in Unallocated : \A v \in Unallocated : u <= v

\* WorkerGet with a pool that hands out an object another goroutine may hold
WorkerGetShared(w) ==
    /\ wpc[w] = "get"
    /\ \E o \in Objects :
         /\ wptr' = [wptr EXCEPT ![w] = o]
         /\ poolFree' = poolFree
         /\ poolObj' = [poolObj EXCEPT ![o] = ResetValue(TrimSpace(emails[widx[w] + 1]))]
    /\ wpc' = [wpc EXCEPT ![w] = "validate"]
    /\ UNCHANGED <<emails, results, jobs, jobsClosed, wgCount, bpc, mainI, widx, takes,
                   wres, processedCount, writes, returned>>

\* ValidateEmailDetailed, to "*resultPtr = EmailValidationResult{...}"
WorkerGet(w) ==
    /\ wpc[w] = "get"
    /\ \E o \in Objects :
         /\ PoolGet(o)
         /\ wptr' = [wptr EXCEPT ![w] = o]
         /\ poolFree' = poolFree \ {o}
         /\ poolObj' = [poolObj EXCEPT ![o] = ResetValue(TrimSpace(emails[widx[w] + 1]))]
    /\ wpc' = [wpc EXCEPT ![w] = "validate"]
    /\ UNCHANGED <<emails, results, jobs, jobsClosed, wgCount, bpc, mainI, widx, takes,
                   wres, processedCount, writes, returned>>

\* ValidateEmailDetailed from "result := *resultPtr" to its return, with the
\* deferred emailValidationPool.Put(resultPtr)
WorkerValidate(w) ==
    /\ wpc[w] = "validate"
    /\ wres' = [wres EXCEPT ![w] =
                  Classify(poolObj[wptr[w]], TrimSpace(emails[widx[w] + 1]))]
    /\ poolFree' = poolFree \cup {wptr[w]}
    /\ wptr' = [wptr EXCEPT ![w] = 0]
    /\ wpc' = [wpc EXCEPT ![w] = "store"]
    /\ UNCHANGED <<emails, results, jobs, jobsClosed, wgCount, bpc, mainI, widx, takes,
                   processedCount, writes, poolObj, returned>>

\* WorkerStore filling the slots in completion order instead of by index
WorkerStoreByCompletion(w) ==
    /\ wpc[w] = "store"
    /\ LET stored == Cardinality({k \in 1..Len(results) : results[k] # ZeroResult})
       IN  results' = [results EXCEPT ![stored + 1] = wres[w]]
    /\ processedCount' = [processedCount EXCEPT ![w] = @ + 1]
    /\ writes' = [writes EXCEPT ![Cardinality({k \in 1..Len(results) : results[k] # ZeroResult}) + 1] = @ + 1]
    /\ wpc' = [wpc EXCEPT ![w] = "recv"]
    /\ UNCHANGED <<emails, jobs, jobsClosed, wgCount, bpc, mainI, widx, takes, wptr, wres,
                   poolFree, poolObj, returned>>

\* results[idx] = <the value returned>; processedCount++
WorkerStore(w) ==
    /\ wpc[w] = "store"
    /\ results' = [results EXCEPT ![widx[w] + 1] = wres[w]]
    /\ processedCount' = [processedCount EXCEPT ![w] = @ + 1]
    /\ writes' = [writes EXCEPT ![widx[w] + 1] = @ + 1]
    /\ wpc' = [wpc EXCEPT ![w] = "recv"]
    /\ UNCHANGED <<emails, jobs, jobsClosed, wgCount, bpc, mainI, widx, takes, wptr, wres,
                   poolFree, poolObj, returned>>

\* the deferred wg.Done()
WorkerExit(w) ==
    /\ wpc[w] = "exit"
    /\ wgCount' = wgCount - 1
    /\ wpc' = [wpc EXCEPT ![w] = "done"]
    /\ UNCHANGED <<emails, results, jobs, jobsClosed, bpc, mainI, widx, takes, wptr, wres,
                   processedCount, writes, poolFree, poolObj, returned>>

(***************************************************************************)
(* services.validateEmailList                                              *)
(***************************************************************************)
\* what utils.ValidateEmailsBatch computes for its caller
BatchResult(xs) == [k \in 1..Len(xs) |-> ValidateEmailDetailed(xs[k])]

validateEmailList(xs, source) ==
    LET validationResults == BatchResult(xs)
    IN  [k \in 1..Len(xs) |->
           [Email           |-> validationResults[k].Email,
            Source          |-> source,
            IsValid         |-> validationResults[k].IsValid,
            IsDisposable    |-> validationResults[k].IsDisposable,
            NormalizedEmail |-> validationResults[k].NormalizedEmail,
            Status          |-> IF validationResults[k].IsValid THEN "Valid" ELSE "Invalid",
            Reason          |-> validationResults[k].Reason]]

(***************************************************************************)
(* services.compareEmailEntries and the tail of services.ValidateEmails    *)
(***************************************************************************)
\* addresses the extractors can hand on (each holds '@'): two spellings of
\* one key, another key, and an address with two '@'
CmpEmails ==
    { <<"a","@","x">>, <<"A","@","x"," ">>, <<"b","@","x">>, <<"@","@">> }

\* whole seconds the request can have taken
ProcessingTimes == {0, 1}

\* MapPut that keeps the entry already stored under the key
MapPutIfAbsent(m, key, entry) ==
    [k \in (DOMAIN m) \cup {key} |-> IF k \in DOMAIN m THEN m[k] ELSE entry]

\* m[key] = entry
MapPut(m, key, entry) ==
    [k \in (DOMAIN m) \cup {key} |-> IF k = key THEN entry ELSE m[k]]

EmptyMap == [k \in {} |-> ZeroResult]

\* the batch variables of a run that is not validating
BatchIdle ==
    /\ emails = <<>>
    /\ results = <<>>
    /\ jobs = <<>>
    /\ jobsClosed = FALSE
    /\ wgCount = 0
    /\ bpc = "idle"
    /\ mainI = 0
    /\ wpc = [w \in Workers |-> "none"]
    /\ widx = [w \in Workers |-> 0]
    /\ wptr = [w \in Workers |-> 0]
    /\ wres = [w \in Workers |-> ZeroResult]
    /\ processedCount = [w \in Workers |-> 0]
    /\ takes = [k \in 1..Len(emails) |-> 0]
    /\ writes = [k \in 1..Len(emails) |-> 0]
    /\ poolFree = {}
    /\ poolObj = [o \in Objects |-> ZeroResult]
    /\ returned = NoResult

\* the comparison variables of a run that is not comparing
CompareIdle ==
    /\ firstEntries = <<>>
    /\ secondEntries = <<>>
    /\ firstMap = EmptyMap
    /\ secondMap = EmptyMap
    /\ matching = <<>>
    /\ missingInFirst = <<>>
    /\ missingInSecond = <<>>
    /\ summary = NilResult
    /\ cpc = "idle"
    /\ ci = 0
    /\ mapTodo = {}
    /\ result = NilResult

\* compareEmailEntries entered with the two validated lists; maps and slices
\* made, summary initialised
InitCompare ==
    /\ firstEntries \in
         { validateEmailList(xs, "First File") : xs \in SeqsUpTo(CmpEmails, MaxEntries) }
    /\ secondEntries \in
         { validateEmailList(xs, "Second File") : xs \in SeqsUpTo(CmpEmails, MaxEntries) }
    /\ firstMap = EmptyMap
    /\ secondMap = EmptyMap
    /\ matching = <<>>
    /\ missingInFirst = <<>>
    /\ missingInSecond = <<>>
    /\ summary = [TotalEmailsFirstFile  |-> Len(firstEntries),
                  TotalEmailsSecondFile |-> Len(secondEntries),
                  ValidEmailsFirstFile  |-> 0,
                  ValidEmailsSecondFile |-> 0,
                  MatchingCount         |-> 0,
                  MissingInFirstCount   |-> 0,
                  MissingInSecondCount  |-> 0,
                  DisposableEmailsCount |-> 0,
                  ProcessingTimeSeconds |-> 0]
    /\ cpc = "first"
    /\ ci = 1
    /\ mapTodo = {}
    /\ result = NilResult

\* one iteration of "for _, entry := range firstEntries", or its end
CompareFirst ==
    /\ cpc = "first"
    /\ IF ci <= Len(firstEntries)
       THEN LET entry == firstEntries[ci] IN
            /\ summary' = IF entry.IsValid
                          THEN [summary EXCEPT !.ValidEmailsFirstFile = @ + 1]
                          ELSE summary
            /\ firstMap' = MapPut(firstMap, entry.NormalizedEmail, entry)
            /\ ci' = ci + 1
            /\ cpc' = cpc
       ELSE /\ cpc' = "second"
            /\ ci' = 1
            /\ UNCHANGED <<summary, firstMap>>
    /\ UNCHANGED <<firstEntries, secondEntries, secondMap, matching, missingInFirst,
                   missingInSecond, mapTodo, result>>
    /\ UNCHANGED batchVars

\* CompareSecond putting each new entry in front of its partition
CompareSecondPrepend ==
    /\ cpc = "second"
    /\ IF ci <= Len(secondEntries)
       THEN LET entry == secondEntries[ci] IN
            /\ summary' = IF entry.IsValid
                          THEN [summary EXCEPT !.ValidEmailsSecondFile = @ + 1]
                          ELSE summary
            /\ IF entry.NormalizedEmail \in DOMAIN firstMap
               THEN /\ matching' = <<firstMap[entry.NormalizedEmail]>> \o matching
                    /\ UNCHANGED missingInFirst
               ELSE /\ missingInFirst' = <<entry>> \o missingInFirst
                    /\ UNCHANGED matching
            /\ secondMap' = MapPut(secondMap, entry.NormalizedEmail, entry)
            /\ ci' = ci + 1
            /\ UNCHANGED <<cpc, mapTodo>>
       ELSE /\ cpc' = "range"
            /\ mapTodo' = DOMAIN firstMap
            /\ UNCHANGED <<summary, matching, missingInFirst, secondMap, ci>>
    /\ UNCHANGED <<firstEntries, secondEntries, firstMap, missingInSecond, result>>
    /\ UNCHANGED batchVars

\* CompareSecond leaving out an entry whose key an earlier entry of the
\* second list already had
CompareSecondSkipSeen ==
    /\ cpc = "second"
    /\ IF ci <= Len(secondEntries)
       THEN LET entry == secondEntries[ci] IN
            /\ summary' = IF entry.IsValid
                          THEN [summary EXCEPT !.ValidEmailsSecondFile = @ + 1]
                          ELSE summary
            /\ IF entry.NormalizedEmail \in DOMAIN secondMap
               THEN UNCHANGED <<matching, missingInFirst>>
               ELSE IF entry.NormalizedEmail \in DOMAIN firstMap
               THEN /\ matching' = Append(matching, firstMap[entry.NormalizedEmail])
                    /\ UNCHANGED missingInFirst
               ELSE /\ missingInFirst' = Append(missingInFirst, entry)
                    /\ UNCHANGED matching
            /\ secondMap' = MapPut(secondMap, entry.NormalizedEmail, entry)
            /\ ci' = ci + 1
            /\ UNCHANGED <<cpc, mapTodo>>
       ELSE /\ cpc' = "range"
            /\ mapTodo' = DOMAIN firstMap
            /\ UNCHANGED <<summary, matching, missingInFirst, secondMap, ci>>
    /\ UNCHANGED <<firstEntries, secondEntries, firstMap, missingInSecond, result>>
    /\ UNCHANGED batchVars

\* one iteration of "for _, entry := range secondEntries", or its end
CompareSecond ==
    /\ cpc = "second"
    /\ IF ci <= Len(secondEntries)
       THEN LET entry == secondEntries[ci] IN
            /\ summary' = IF entry.IsValid
                          THEN [summary EXCEPT !.ValidEmailsSecondFile = @ + 1]
                          ELSE summary
            /\ IF entry.NormalizedEmail \in DOMAIN firstMap
               THEN /\ matching' = Append(matching, firstMap[entry.NormalizedEmail])
                    /\ UNCHANGED missingInFirst
               ELSE /\ missingInFirst' = Append(missingInFirst, entry)
                    /\ UNCHANGED matching
            /\ secondMap' = MapPut(secondMap, entry.NormalizedEmail, entry)
            /\ ci' = ci + 1
            /\ UNCHANGED <<cpc, mapTodo>>
       ELSE /\ cpc' = "range"
            /\ mapTodo' = DOMAIN firstMap
            /\ UNCHANGED <<summary, matching, missingInFirst, secondMap, ci>>
    /\ UNCHANGED <<firstEntries, secondEntries, firstMap, missingInSecond, result>>
    /\ UNCHANGED batchVars

\* CompareRange looking the key up in firstMap instead of secondMap
CompareRangeWrongMap ==
    /\ cpc = "range"
    /\ IF mapTodo # {}
       THEN \E normalizedEmail \in mapTodo :
              /\ missingInSecond' =
                   IF normalizedEmail \notin DOMAIN firstMap
                   THEN Append(missingInSecond, firstMap[normalizedEmail])
                   ELSE missingInSecond
              /\ mapTodo' = mapTodo \ {normalizedEmail}
              /\ cpc' = cpc
       ELSE /\ cpc' = "counts"
            /\ UNCHANGED <<missingInSecond, mapTodo>>
    /\ UNCHANGED <<firstEntries, secondEntries, firstMap, secondMap, matching,
                   missingInFirst, summary, ci, result>>
    /\ UNCHANGED batchVars

\* CompareRange without the look-up: every key of firstMap is emitted
CompareRangeNoCheck ==
    /\ cpc = "range"
    /\ IF mapTodo # {}
       THEN \E normalizedEmail \in mapTodo :
              /\ missingInSecond' = Append(missingInSecond, firstMap[normalizedEmail])
              /\ mapTodo' = mapTodo \ {normalizedEmail}
              /\ cpc' = cpc
       ELSE /\ cpc' = "counts"
            /\ UNCHANGED <<missingInSecond, mapTodo>>
    /\ UNCHANGED <<firstEntries, secondEntries, firstMap, secondMap, matching,
                   missingInFirst, summary, ci, result>>
    /\ UNCHANGED batchVars

\* one iteration of "for normalizedEmail, entry := range firstMap", or its
\* end: Go produces the keys of a map in an order it does not specify
CompareRange ==
    /\ cpc = "range"
    /\ IF mapTodo # {}
       THEN \E normalizedEmail \in mapTodo :
              /\ missingInSecond' =
                   IF normalizedEmail \notin DOMAIN secondMap
                   THEN Append(missingInSecond, firstMap[normalizedEmail])
                   ELSE missingInSecond
              /\ mapTodo' = mapTodo \ {normalizedEmail}
              /\ cpc' = cpc
       ELSE /\ cpc' = "counts"
            /\ UNCHANGED <<missingInSecond, mapTodo>>
    /\ UNCHANGED <<firstEntries, secondEntries, firstMap, secondMap, matching,
                   missingInFirst, summary, ci, result>>
    /\ UNCHANGED batchVars

\* CompareCounts with the two missing counts exchanged
CompareCountsSwapped ==
    /\ cpc = "counts"
    /\ summary' = [summary EXCEPT !.MatchingCount = Len(matching),
                                  !.MissingInFirstCount = Len(missingInSecond),
                                  !.MissingInSecondCount = Len(missingInFirst)]
    /\ cpc' = "output"
    /\ UNCHANGED <<firstEntries, secondEntries, firstMap, secondMap, matching,
                   missingInFirst, missingInSecond, ci, mapTodo, result>>
    /\ UNCHANGED batchVars

\* "Update summary counts" and return
CompareCounts ==
    /\ cpc = "counts"
    /\ summary' = [summary EXCEPT !.MatchingCount = Len(matching),
                                  !.MissingInFirstCount = Len(missingInFirst),
                                  !.MissingInSecondCount = Len(missingInSecond)]
    /\ cpc' = "output"
    /\ UNCHANGED <<firstEntries, secondEntries, firstMap, secondMap, matching,
                   missingInFirst, missingInSecond, ci, mapTodo, result>>
    /\ UNCHANGED batchVars

\* ValidateEmails: the processing time goes into the summary and the report
\* is written; a write error ends the request with a nil result
GenerateOutput ==
    /\ cpc = "output"
    /\ \E t \in ProcessingTimes, ok \in BOOLEAN :
         /\ summary' = [summary EXCEPT !.ProcessingTimeSeconds = t]
         /\ cpc' = IF ok THEN "respond" ELSE "failed"
    /\ UNCHANGED <<firstEntries, secondEntries, firstMap, secondMap, matching,
                   missingInFirst, missingInSecond, ci, mapTodo, result>>
    /\ UNCHANGED batchVars

\* ValidateEmails: the address strings of the partitions and the summary
BuildResult ==
    /\ cpc = "respond"
    /\ result' =
         [MatchingEmails      |-> [k \in 1..Len(matching) |-> matching[k].Email],
          MissingInFirstFile  |-> [k \in 1..Len(missingInFirst) |-> missingInFirst[k].Email],
          MissingInSecondFile |-> [k \in 1..Len(missingInSecond) |-> missingInSecond[k].Email],
          Summary             |-> summary]
    /\ cpc' = "done"
    /\ UNCHANGED <<firstEntries, secondEntries, firstMap, secondMap, matching,
                   missingInFirst, missingInSecond, summary, ci, mapTodo>>
    /\ UNCHANGED batchVars

(***************************************************************************)
(* Single calls of utils.NormalizeEmail and utils.ValidateEmailDetailed.   *)
(***************************************************************************)
VARIABLES
    pIn,            \* the argument
    pNorm,          \* NormalizeEmail(pIn)
    pNorm2,         \* NormalizeEmail(pNorm)
    pVal,           \* ValidateEmailDetailed(pIn)
    ppc             \* which calls have been made

pureVars == <<pIn, pNorm, pNorm2, pVal, ppc>>

\* longest free part of an argument
MaxLocal == 3

\* characters of the free part: white space, a lower and an upper case
\* letter, and the three characters the code looks for
PureChars == {" ", "a", "B", ".", "+", "@"}

\* what follows the free part
PureTails ==
    { <<>>,
      <<"@","g","m","a","i","l",".","c","o","m">>,
      <<"@","G","m","a","i","l",".","C","o","m"," ">>,
      <<"@","g","m","a","i","l",".","c","o">>,
      <<"@","x">> }

\* " First.Last+promo@gmail.com "
PromoAddress ==
    <<" ","F","i","r","s","t",".","L","a","s","t","+","p","r","o","m","o",
      "@","g","m","a","i","l",".","c","o","m"," ">>

PureInputs ==
    { l \o t : l \in SeqsUpTo(PureChars, MaxLocal), t \in PureTails }
    \cup {PromoAddress}

PureIdle ==
    /\ pIn = <<>>
    /\ pNorm = NoResult
    /\ pNorm2 = NoResult
    /\ pVal = NoResult
    /\ ppc = "idle"

InitPure ==
    /\ pIn \in PureInputs
    /\ pNorm = NoResult
    /\ pNorm2 = NoResult
    /\ pVal = NoResult
    /\ ppc = "start"

\* key := NormalizeEmail(x)
CallNormalize ==
    /\ ppc = "start"
    /\ pNorm' = NormalizeEmail(pIn)
    /\ ppc' = "normalized"
    /\ UNCHANGED <<pIn, pNorm2, pVal>>

\* NormalizeEmail(key)
CallNormalizeAgain ==
    /\ ppc = "normalized"
    /\ pNorm2' = NormalizeEmail(pNorm)
    /\ ppc' = "renormalized"
    /\ UNCHANGED <<pIn, pNorm, pVal>>

\* ValidateEmailDetailed(x)
CallValidate ==
    /\ ppc = "renormalized"
    /\ pVal' = ValidateEmailDetailed(pIn)
    /\ ppc' = "validated"
    /\ UNCHANGED <<pIn, pNorm, pNorm2>>

(***************************************************************************)
(* utils.Cache: Set, Get, Delete, Clear and the removals Get defers, under *)
(* the cache's sync.RWMutex, with the clock time.Now reads.                *)
(***************************************************************************)
VARIABLES
    now,            \* the clock
    cdata,          \* c.data: key -> [value, expiration]
    muWriter,       \* who holds c.mu for writing ("none": nobody)
    muReaders,      \* how many goroutines hold c.mu for reading
    kpc,            \* where each calling goroutine is
    kop,            \* its call: [key, value, ttl]
    kitem,          \* the item a Get has read from c.data
    kret,           \* what its last Get returned, and what the cache held then
    pending,        \* key -> number of removal goroutines not yet in the lock
    removing,       \* the key of the removal goroutine that holds the lock
    lastSet         \* key -> the item of the last Set returned, live until a
                    \* Delete of the key or a Clear returns

cacheVars == <<now, cdata, muWriter, muReaders, kpc, kop, kitem, kret, pending,
               removing, lastSet>>

\* last instant of the clock
MaxTime == 2
\* most removal goroutines of one key waiting for the lock
MaxPending == 1

Callers == {"g1", "g2"}
CacheKeys == {"k"}
CacheValues == {TRUE, FALSE}
\* expiration durations, in clock ticks
CacheTTLs == {0, 1}

NoItem == [value |-> FALSE, expiration |-> 0]
NoCall == [key |-> "k", value |-> FALSE, ttl |-> 0]
NoSet == [live |-> FALSE, item |-> NoItem]
NoReturn == [isGet |-> FALSE, key |-> "k", found |-> FALSE, value |-> FALSE,
             at |-> 0, stored |-> FALSE, storedItem |-> NoItem, set |-> NoSet]

\* delete(m, key)
MapDelete(m, key) == [k \in (DOMAIN m) \ {key} |-> m[k]]

\* c.mu.Lock() can return: nobody reads, nobody writes
CanLockIgnoringReaders == muWriter = "none"

CanLock == muWriter = "none" /\ muReaders = 0

\* c.mu.RLock() can return: nobody writes
CanRLock == muWriter = "none"

CacheIdle ==
    /\ now = 0
    /\ cdata = EmptyMap
    /\ muWriter = "none"
    /\ muReaders = 0
    /\ kpc = [g \in Callers |-> "off"]
    /\ kop = [g \in Callers |-> NoCall]
    /\ kitem = [g \in Callers |-> NoItem]
    /\ kret = [g \in Callers |-> NoReturn]
    /\ pending = [k \in CacheKeys |-> 0]
    /\ removing = "none"
    /\ lastSet = [k \in CacheKeys |-> NoSet]

\* NewCache(), and goroutines about to call it
InitCache ==
    /\ now = 0
    /\ cdata = EmptyMap
    /\ muWriter = "none"
    /\ muReaders = 0
    /\ kpc = [g \in Callers |-> "idle"]
    /\ kop = [g \in Callers |-> NoCall]
    /\ kitem = [g \in Callers |-> NoItem]
    /\ kret = [g \in Callers |-> NoReturn]
    /\ pending = [k \in CacheKeys |-> 0]
    /\ removing = "none"
    /\ lastSet = [k \in CacheKeys |-> NoSet]

\* time passes
Tick ==
    /\ now < MaxTime
    /\ now' = now + 1
    /\ UNCHANGED <<cdata, lastSet, muWriter, muReaders, kpc, kop, kitem, kret, pending, removing>>

\* Set: c.mu.Lock()
SetLock(g) ==
    /\ kpc[g] = "idle"
    /\ CanLock
    /\ \E k \in CacheKeys, v \in CacheValues, ttl \in CacheTTLs :
         kop' = [kop EXCEPT ![g] = [key |-> k, value |-> v, ttl |-> ttl]]
    /\ muWriter' = g
    /\ kpc' = [kpc EXCEPT ![g] = "set"]
    /\ kret' = [kret EXCEPT ![g] = NoReturn]
    /\ UNCHANGED <<now, cdata, lastSet, muReaders, kitem, pending, removing>>

\* Set: c.data[key] = cacheItem{value, time.Now().Add(expiration)}; Unlock
SetStore(g) ==
    /\ kpc[g] = "set"
    /\ cdata' = MapPut(cdata, kop[g].key,
                       [value |-> kop[g].value, expiration |-> now + kop[g].ttl])
    /\ lastSet' = [lastSet EXCEPT ![kop[g].key] =
                     [live |-> TRUE,
                      item |-> [value |-> kop[g].value,
                                expiration |-> now + kop[g].ttl]]]
    /\ muWriter' = "none"
    /\ kpc' = [kpc EXCEPT ![g] = "idle"]
    /\ UNCHANGED <<now, muReaders, kop, kitem, kret, pending, removing>>

\* Get: c.mu.RLock()
GetRLock(g) ==
    /\ kpc[g] = "idle"
    /\ CanRLock
    /\ \E k \in CacheKeys :
         kop' = [kop EXCEPT ![g] = [key |-> k, value |-> FALSE, ttl |-> 0]]
    /\ muReaders' = muReaders + 1
    /\ kpc' = [kpc EXCEPT ![g] = "lookup"]
    /\ kret' = [kret EXCEPT ![g] = NoReturn]
    /\ UNCHANGED <<now, cdata, lastSet, muWriter, kitem, pending, removing>>

\* what the cache holds under the key at this instant
Stored(k) == IF k \in DOMAIN cdata THEN cdata[k] ELSE NoItem

\* Get: item, found := c.data[key]; not found: return nil, false (RUnlock)
GetLookup(g) ==
    /\ kpc[g] = "lookup"
    /\ IF kop[g].key \in DOMAIN cdata
       THEN /\ kitem' = [kitem EXCEPT ![g] = cdata[kop[g].key]]
            /\ kpc' = [kpc EXCEPT ![g] = "check"]
            /\ UNCHANGED <<muReaders, kret>>
       ELSE /\ kret' = [kret EXCEPT ![g] =
                          [isGet |-> TRUE, key |-> kop[g].key, found |-> FALSE,
                           value |-> FALSE, at |-> now, stored |-> FALSE,
                           storedItem |-> NoItem, set |-> lastSet[kop[g].key]]]
            /\ muReaders' = muReaders - 1
            /\ kpc' = [kpc EXCEPT ![g] = "idle"]
            /\ UNCHANGED kitem
    /\ UNCHANGED <<now, cdata, lastSet, muWriter, kop, pending, removing>>

\* Get: time.Now().After(item.expiration): start the removal goroutine and
\* return nil, false; otherwise return item.value, true (RUnlock)
GetCheck(g) ==
    /\ kpc[g] = "check"
    /\ IF now > kitem[g].expiration
       THEN /\ pending[kop[g].key] < MaxPending
            /\ pending' = [pending EXCEPT ![kop[g].key] = @ + 1]
       ELSE UNCHANGED pending
    /\ kret' = [kret EXCEPT ![g] =
                  [isGet |-> TRUE, key |-> kop[g].key,
                   found |-> ~(now > kitem[g].expiration),
                   value |-> IF now > kitem[g].expiration THEN FALSE
                             ELSE kitem[g].value,
                   at |-> now,
                   stored |-> kop[g].key \in DOMAIN cdata,
                   storedItem |-> Stored(kop[g].key),
                   set |-> lastSet[kop[g].key]]]
    /\ muReaders' = muReaders - 1
    /\ kpc' = [kpc EXCEPT ![g] = "idle"]
    /\ kitem' = [kitem EXCEPT ![g] = NoItem]
    /\ UNCHANGED <<now, cdata, lastSet, muWriter, kop, removing>>

\* the goroutine started by Get: c.mu.Lock()
RemovalLock ==
    /\ CanLock
    /\ \E k \in CacheKeys :
         /\ pending[k] > 0
         /\ pending' = [pending EXCEPT ![k] = @ - 1]
         /\ removing' = k
    /\ muWriter' = "removal"
    /\ UNCHANGED <<now, cdata, lastSet, muReaders, kpc, kop, kitem, kret>>

\* the goroutine started by Get: delete(c.data, key); c.mu.Unlock()
RemovalDelete ==
    /\ muWriter = "removal"
    /\ cdata' = MapDelete(cdata, removing)
    /\ UNCHANGED lastSet
    /\ removing' = "none"
    /\ muWriter' = "none"
    /\ UNCHANGED <<now, muReaders, kpc, kop, kitem, kret, pending>>

\* Delete: c.mu.Lock()
DeleteLock(g) ==
    /\ kpc[g] = "idle"
    /\ CanLock
    /\ \E k \in CacheKeys :
         kop' = [kop EXCEPT ![g] = [key |-> k, value |-> FALSE, ttl |-> 0]]
    /\ muWriter' = g
    /\ kpc' = [kpc EXCEPT ![g] = "delete"]
    /\ kret' = [kret EXCEPT ![g] = NoReturn]
    /\ UNCHANGED <<now, cdata, lastSet, muReaders, kitem, pending, removing>>

\* Delete: delete(c.data, key); Unlock
DeleteBody(g) ==
    /\ kpc[g] = "delete"
    /\ cdata' = MapDelete(cdata, kop[g].key)
    /\ lastSet' = [lastSet EXCEPT ![kop[g].key] = NoSet]
    /\ muWriter' = "none"
    /\ kpc' = [kpc EXCEPT ![g] = "idle"]
    /\ UNCHANGED <<now, muReaders, kop, kitem, kret, pending, removing>>

\* Clear: c.mu.Lock()
ClearLock(g) ==
    /\ kpc[g] = "idle"
    /\ CanLock
    /\ kop' = [kop EXCEPT ![g] = NoCall]
    /\ muWriter' = g
    /\ kpc' = [kpc EXCEPT ![g] = "clear"]
    /\ kret' = [kret EXCEPT ![g] = NoReturn]
    /\ UNCHANGED <<now, cdata, lastSet, muReaders, kitem, pending, removing>>

\* Clear: c.data = make(map[string]cacheItem); Unlock
ClearBody(g) ==
    /\ kpc[g] = "clear"
    /\ cdata' = EmptyMap
    /\ lastSet' = [k \in CacheKeys |-> NoSet]
    /\ muWriter' = "none"
    /\ kpc' = [kpc EXCEPT ![g] = "idle"]
    /\ UNCHANGED <<now, muReaders, kop, kitem, kret, pending, removing>>

(***************************************************************************)
(* services.ValidateEmails: the two extraction goroutines, the two          *)
(* validation goroutines, the WaitGroup and the channels that join them,    *)
(* then compareEmailEntries and the report (the actions above).             *)
(***************************************************************************)
VARIABLES
    outcome,        \* what extractEmails gives for each file: [emails, err]
    vpc,            \* where ValidateEmails is
    pwg,            \* the WaitGroup counter
    xpc,            \* where each extraction goroutine is
    xres,           \* what its extractEmails call returned
    fileCh,         \* firstFileCh, secondFileCh
    received,       \* firstResult, secondResult
    ypc,            \* where each validation goroutine is
    yres,           \* what its validateEmailList call returned
    validationCh,   \* firstValidationCh, secondValidationCh
    vret            \* what ValidateEmails returned

pipeVars == <<outcome, vpc, pwg, xpc, xres, fileCh, received, ypc, yres,
              validationCh, vret>>

\* most addresses extracted from one file
MaxPipe == 1

Files == 1..2
FileSource == <<"First File", "Second File">>
FileStage == <<"first file", "second file">>
NoExtract == [emails |-> <<>>, err |-> "nil"]
ExtractOutcomes ==
    { [emails |-> xs, err |-> "nil"] : xs \in SeqsUpTo(CmpEmails, MaxPipe) }
        \cup { [emails |-> <<>>, err |-> "extract failed"] }

\* wg.Wait() returning although one goroutine has not called Done
WaitReturnsEarly == pwg <= 1

\* wg.Wait() can return
WaitReturns == pwg = 0

PipeIdle ==
    /\ outcome = [f \in Files |-> NoExtract]
    /\ vpc = "off"
    /\ pwg = 0
    /\ xpc = [f \in Files |-> "none"]
    /\ xres = [f \in Files |-> NoExtract]
    /\ fileCh = [f \in Files |-> <<>>]
    /\ received = [f \in Files |-> NoExtract]
    /\ ypc = [f \in Files |-> "none"]
    /\ yres = [f \in Files |-> <<>>]
    /\ validationCh = [f \in Files |-> <<>>]
    /\ vret = NilResult

\* ValidateEmails entered
InitPipe ==
    /\ outcome \in [Files -> ExtractOutcomes]
    /\ vpc = "mkdir"
    /\ pwg = 0
    /\ xpc = [f \in Files |-> "none"]
    /\ xres = [f \in Files |-> NoExtract]
    /\ fileCh = [f \in Files |-> <<>>]
    /\ received = [f \in Files |-> NoExtract]
    /\ ypc = [f \in Files |-> "none"]
    /\ yres = [f \in Files |-> <<>>]
    /\ validationCh = [f \in Files |-> <<>>]
    /\ vret = NilResult

\* os.MkdirAll("./temp"): on failure return nil and the error
PipeMkdir ==
    /\ vpc = "mkdir"
    /\ \E ok \in BOOLEAN :
         IF ok
         THEN vpc' = "spawn1" /\ UNCHANGED vret
         ELSE /\ vpc' = "returned"
              /\ vret' = [ok |-> FALSE, stage |-> "temp directory", cause |-> "mkdir failed"]
    /\ UNCHANGED <<outcome, pwg, xpc, xres, fileCh, received, ypc, yres, validationCh>>
    /\ UNCHANGED cmpVars

\* wg.Add(2); go func(){...}(); go func(){...}()
PipeSpawnExtract ==
    /\ vpc = "spawn1"
    /\ pwg' = pwg + 2
    /\ xpc' = [f \in Files |-> "run"]
    /\ vpc' = "wait1"
    /\ UNCHANGED <<outcome, xres, fileCh, received, ypc, yres, validationCh, vret>>
    /\ UNCHANGED cmpVars

\* emails, err := extractEmails(path)
ExtractRun(f) ==
    /\ xpc[f] = "run"
    /\ xres' = [xres EXCEPT ![f] = outcome[f]]
    /\ xpc' = [xpc EXCEPT ![f] = "send"]
    /\ UNCHANGED <<outcome, vpc, pwg, fileCh, received, ypc, yres, validationCh, vret>>
    /\ UNCHANGED cmpVars

\* fileCh <- extractResult{emails, err} (capacity 1)
ExtractSend(f) ==
    /\ xpc[f] = "send"
    /\ Len(fileCh[f]) < 1
    /\ fileCh' = [fileCh EXCEPT ![f] = Append(@, xres[f])]
    /\ xpc' = [xpc EXCEPT ![f] = "exit"]
    /\ UNCHANGED <<outcome, vpc, pwg, xres, received, ypc, yres, validationCh, vret>>
    /\ UNCHANGED cmpVars

\* the deferred wg.Done()
ExtractDone(f) ==
    /\ xpc[f] = "exit"
    /\ pwg' = pwg - 1
    /\ xpc' = [xpc EXCEPT ![f] = "done"]
    /\ UNCHANGED <<outcome, vpc, xres, fileCh, received, ypc, yres, validationCh, vret>>
    /\ UNCHANGED cmpVars

\* wg.Wait() after the extraction goroutines
PipeWaitExtract ==
    /\ vpc = "wait1"
    /\ WaitReturns
    /\ vpc' = "recv1"
    /\ UNCHANGED <<outcome, pwg, xpc, xres, fileCh, received, ypc, yres, validationCh, vret>>
    /\ UNCHANGED cmpVars

\* firstResult := <-firstFileCh; secondResult := <-secondFileCh
PipeRecvExtract ==
    /\ vpc = "recv1"
    /\ \A f \in Files : fileCh[f] # <<>>
    /\ received' = [f \in Files |-> Head(fileCh[f])]
    /\ fileCh' = [f \in Files |-> Tail(fileCh[f])]
    /\ vpc' = "check"
    /\ UNCHANGED <<outcome, pwg, xpc, xres, ypc, yres, validationCh, vret>>
    /\ UNCHANGED cmpVars

\* PipeCheckErrors looking at secondResult.err before firstResult.err
PipeCheckErrorsSecondFirst ==
    /\ vpc = "check"
    /\ IF received[2].err # "nil"
       THEN /\ vret' = [ok |-> FALSE, stage |-> FileStage[2], cause |-> received[2].err]
            /\ vpc' = "returned"
       ELSE IF received[1].err # "nil"
       THEN /\ vret' = [ok |-> FALSE, stage |-> FileStage[1], cause |-> received[1].err]
            /\ vpc' = "returned"
       ELSE /\ vpc' = "spawn2"
            /\ UNCHANGED vret
    /\ UNCHANGED <<outcome, pwg, xpc, xres, fileCh, received, ypc, yres, validationCh>>
    /\ UNCHANGED cmpVars

\* if firstResult.err != nil {return nil, ...}; if secondResult.err != nil {...}
PipeCheckErrors ==
    /\ vpc = "check"
    /\ IF received[1].err # "nil"
       THEN /\ vret' = [ok |-> FALSE, stage |-> FileStage[1], cause |-> received[1].err]
            /\ vpc' = "returned"
       ELSE IF received[2].err # "nil"
       THEN /\ vret' = [ok |-> FALSE, stage |-> FileStage[2], cause |-> received[2].err]
            /\ vpc' = "returned"
       ELSE /\ vpc' = "spawn2"
            /\ UNCHANGED vret
    /\ UNCHANGED <<outcome, pwg, xpc, xres, fileCh, received, ypc, yres, validationCh>>
    /\ UNCHANGED cmpVars

\* wg.Add(2); go func(){...}(); go func(){...}()
PipeSpawnValidate ==
    /\ vpc = "spawn2"
    /\ pwg' = pwg + 2
    /\ ypc' = [f \in Files |-> "run"]
    /\ vpc' = "wait2"
    /\ UNCHANGED <<outcome, xpc, xres, fileCh, received, yres, validationCh, vret>>
    /\ UNCHANGED cmpVars

\* entries := validateEmailList(result.emails, source)
ValidateRun(f) ==
    /\ ypc[f] = "run"
    /\ yres' = [yres EXCEPT ![f] = validateEmailList(received[f].emails, FileSource[f])]
    /\ ypc' = [ypc EXCEPT ![f] = "send"]
    /\ UNCHANGED <<outcome, vpc, pwg, xpc, xres, fileCh, received, validationCh, vret>>
    /\ UNCHANGED cmpVars

\* validationCh <- validationResult{entries} (capacity 1)
ValidateSend(f) ==
    /\ ypc[f] = "send"
    /\ Len(validationCh[f]) < 1
    /\ validationCh' = [validationCh EXCEPT ![f] = Append(@, yres[f])]
    /\ ypc' = [ypc EXCEPT ![f] = "exit"]
    /\ UNCHANGED <<outcome, vpc, pwg, xpc, xres, fileCh, received, yres, vret>>
    /\ UNCHANGED cmpVars

\* the deferred wg.Done()
ValidateDone(f) ==
    /\ ypc[f] = "exit"
    /\ pwg' = pwg - 1
    /\ ypc' = [ypc EXCEPT ![f] = "done"]
    /\ UNCHANGED <<outcome, vpc, xpc, xres, fileCh, received, yres, validationCh, vret>>
    /\ UNCHANGED cmpVars

\* wg.Wait() after the validation goroutines
PipeWaitValidate ==
    /\ vpc = "wait2"
    /\ WaitReturns
    /\ vpc' = "recv2"
    /\ UNCHANGED <<outcome, pwg, xpc, xres, fileCh, received, ypc, yres, validationCh, vret>>
    /\ UNCHANGED cmpVars

\* firstFileEntries := (<-firstValidationCh).entries, the same for the second,
\* and compareEmailEntries entered with them
PipeRecvValidate ==
    /\ vpc = "recv2"
    /\ \A f \in Files : validationCh[f] # <<>>
    /\ validationCh' = [f \in Files |-> Tail(validationCh[f])]
    /\ vpc' = "compare"
    /\ firstEntries' = Head(validationCh[1])
    /\ secondEntries' = Head(validationCh[2])
    /\ summary' = [TotalEmailsFirstFile  |-> Len(Head(validationCh[1])),
                   TotalEmailsSecondFile |-> Len(Head(validationCh[2])),
                   ValidEmailsFirstFile  |-> 0,
                   ValidEmailsSecondFile |-> 0,
                   MatchingCount         |-> 0,
                   MissingInFirstCount   |-> 0,
                   MissingInSecondCount  |-> 0,
                   DisposableEmailsCount |-> 0,
                   ProcessingTimeSeconds |-> 0]
    /\ cpc' = "first"
    /\ ci' = 1
    /\ UNCHANGED <<firstMap, secondMap, matching, missingInFirst, missingInSecond,
                   mapTodo, result>>
    /\ UNCHANGED <<outcome, pwg, xpc, xres, fileCh, received, ypc, yres, vret>>

\* return result, nil; or return nil and the error of the report
PipeReturn ==
    /\ vpc = "compare"
    /\ cpc \in {"done", "failed"}
    /\ vret' = IF cpc = "done"
               THEN [ok |-> TRUE, stage |-> "", cause |-> "nil"]
               ELSE [ok |-> FALSE, stage |-> "output file", cause |-> "generate failed"]
    /\ vpc' = "returned"
    /\ UNCHANGED <<outcome, pwg, xpc, xres, fileCh, received, ypc, yres, validationCh>>
    /\ UNCHANGED cmpVars

(***************************************************************************)
(* services.extractEmails, extractEmailsFromCSV, extractEmailsFromExcel.   *)
(* A file is what its reader hands over: one read per row, each a record   *)
(* of cells or an error, then the end of the input.                        *)
(***************************************************************************)
VARIABLES
    eext,           \* the extension of filePath
    eopen,          \* whether the file (and its first sheet) can be opened
    erows,          \* what the reads give, row by row: [err, cells]
    epos,           \* how many rows have been read
    eemails,        \* the emails slice
    eret,           \* what extractEmails returned: [emails, err]
    epc             \* where extractEmails is

extractVars == <<eext, eopen, erows, epos, eemails, eret, epc>>

\* most rows of a file, the header row included
MaxRows == 3

Extensions == {".csv", ".xlsx", ".txt"}
\* first-column values: empty, without '@', an address, an address between
\* spaces
FirstCells == { <<>>, <<"x">>, <<"a","@","x">>, <<" ","a","@","x"," ">> }
OtherCell == <<"n">>
\* a row of one or two cells, a row without cells (spreadsheet only), a read
\* that fails
RowReads ==
    { [err |-> FALSE, cells |-> <<c>>] : c \in FirstCells }
        \cup { [err |-> FALSE, cells |-> <<c, OtherCell>>] : c \in FirstCells }
        \cup { [err |-> FALSE, cells |-> <<>>], [err |-> TRUE, cells |-> <<>>] }

\* strings.Contains(s, "@")
Contains(s, ch) == \E k \in 1..Len(s) : s[k] = ch

\* KeepCell without the test for '@'
KeepCellNonEmpty(record) == Len(record) > 0 /\ record[1] # <<>>

\* len(record) > 0 && record[0] != "" && strings.Contains(record[0], "@")
KeepCell(record) ==
    /\ Len(record) > 0
    /\ record[1] # <<>>
    /\ Contains(record[1], "@")

ExtractIdle ==
    /\ eext = ".csv"
    /\ eopen = TRUE
    /\ erows = <<>>
    /\ epos = 0
    /\ eemails = <<>>
    /\ eret = NoResult
    /\ epc = "off"

\* extractEmails entered; a CSV record has at least one field
InitExtract ==
    /\ eext \in Extensions
    /\ eopen \in BOOLEAN
    /\ erows \in SeqsUpTo(RowReads, MaxRows)
    /\ eext = ".csv" =>
         \A k \in 1..Len(erows) : erows[k].err \/ erows[k].cells # <<>>
    /\ epos = 0
    /\ eemails = <<>>
    /\ eret = NoResult
    /\ epc = "dispatch"

\* switch ext, and os.Open / excelize.OpenFile, GetSheetList, f.Rows
ExtractDispatch ==
    /\ epc = "dispatch"
    /\ IF eext \notin {".csv", ".xlsx", ".xls"}
       THEN /\ eret' = [emails |-> <<>>, err |-> "unsupported file format"]
            /\ epc' = "returned"
       ELSE IF ~eopen
       THEN /\ eret' = [emails |-> <<>>, err |-> "open failed"]
            /\ epc' = "returned"
       ELSE /\ epc' = IF eext = ".csv" THEN "csvheader" ELSE "xlsheader"
            /\ UNCHANGED eret
    /\ UNCHANGED <<eext, eopen, erows, epos, eemails>>

\* extractEmailsFromCSV: _, err = reader.Read(); any error, the end of the
\* input included, is returned
CSVHeader ==
    /\ epc = "csvheader"
    /\ IF Len(erows) = 0
       THEN /\ eret' = [emails |-> <<>>, err |-> "EOF"]
            /\ epc' = "returned"
            /\ UNCHANGED epos
       ELSE IF erows[1].err
       THEN /\ eret' = [emails |-> <<>>, err |-> "read failed"]
            /\ epc' = "returned"
            /\ UNCHANGED epos
       ELSE /\ epos' = 1
            /\ epc' = "csvrows"
            /\ UNCHANGED eret
    /\ UNCHANGED <<eext, eopen, erows, eemails>>

\* extractEmailsFromCSV: one iteration of the for loop
CSVRow ==
    /\ epc = "csvrows"
    /\ IF epos >= Len(erows)
       THEN /\ eret' = [emails |-> eemails, err |-> "nil"]
            /\ epc' = "returned"
            /\ UNCHANGED <<epos, eemails>>
       ELSE IF erows[epos + 1].err
       THEN /\ eret' = [emails |-> <<>>, err |-> "read failed"]
            /\ epc' = "returned"
            /\ UNCHANGED <<epos, eemails>>
       ELSE LET record == erows[epos + 1].cells IN
            /\ eemails' = IF KeepCell(record) THEN Append(eemails, record[1])
                          ELSE eemails
            /\ epos' = epos + 1
            /\ UNCHANGED <<eret, epc>>
    /\ UNCHANGED <<eext, eopen, erows>>

\* extractEmailsFromExcel: if rows.Next() { _, err := rows.Columns() ... }
ExcelHeader ==
    /\ epc = "xlsheader"
    /\ IF Len(erows) = 0
       THEN /\ epc' = "xlsrows"
            /\ UNCHANGED <<epos, eret>>
       ELSE IF erows[1].err
       THEN /\ eret' = [emails |-> <<>>, err |-> "read failed"]
            /\ epc' = "returned"
            /\ UNCHANGED epos
       ELSE /\ epos' = 1
            /\ epc' = "xlsrows"
            /\ UNCHANGED eret
    /\ UNCHANGED <<eext, eopen, erows, eemails>>

\* extractEmailsFromExcel: one iteration of "for rows.Next()"
ExcelRow ==
    /\ epc = "xlsrows"
    /\ IF epos >= Len(erows)
       THEN /\ eret' = [emails |-> eemails, err |-> "nil"]
            /\ epc' = "returned"
            /\ UNCHANGED <<epos, eemails>>
       ELSE IF erows[epos + 1].err
       THEN /\ eret' = [emails |-> <<>>, err |-> "read failed"]
            /\ epc' = "returned"
            /\ UNCHANGED <<epos, eemails>>
       ELSE LET row == erows[epos + 1].cells IN
            /\ eemails' = IF KeepCell(row) THEN Append(eemails, row[1])
                          ELSE eemails
            /\ epos' = epos + 1
            /\ UNCHANGED <<eret, epc>>
    /\ UNCHANGED <<eext, eopen, erows>>

(***************************************************************************)
(* services.generateEnhancedOutputFile, generateEnhancedCSVOutput,         *)
(* generateEnhancedExcelOutput, fmtBool.                                   *)
(***************************************************************************)
VARIABLES
    oext,               \* the extension of outputPath
    oMatching,          \* the matching argument
    oMissingInFirst,    \* the missingInFirst argument
    oMissingInSecond,   \* the missingInSecond argument
    oSummary,           \* the summary argument
    opc,                \* where the generator is
    oi,                 \* the index of the range loop it is in
    orow,               \* the row variable of generateEnhancedExcelOutput
    csvOut,             \* the records written to the CSV writer
    sheetOut,           \* the cells of the "Validation Results" sheet
    summaryOut,         \* the cells of the "Summary" sheet
    oret                \* the error returned ("nil": none)

reportVars == <<oext, oMatching, oMissingInFirst, oMissingInSecond, oSummary,
                opc, oi, orow, csvOut, sheetOut, summaryOut, oret>>

\* most entries of one partition
MaxSection == 2

OutputExtensions == {".csv", ".xlsx", ".txt"}
\* a valid and an invalid entry
ReportEntries ==
    { validateEmailList(<< <<"a","@","x">> >>, "First File")[1],
      validateEmailList(<< <<"@","@">> >>, "Second File")[1] }

RECURSIVE CountValid(_)
CountValid(es) ==
    IF es = <<>> THEN 0
    ELSE (IF Head(es).IsValid THEN 1 ELSE 0) + CountValid(Tail(es))

Digits == <<"0", "1", "2", "3", "4", "5", "6", "7", "8", "9">>
\* fmt.Sprintf("%d", n), n >= 0
RECURSIVE Itoa(_)
Itoa(n) ==
    IF n < 10 THEN <<Digits[n + 1]>>
    ELSE Itoa(n \div 10) \o <<Digits[(n % 10) + 1]>>

fmtBool(b) == IF b THEN "Yes" ELSE "No"

\* string('A'+i)
ColumnLetters == <<"A", "B", "C", "D", "E", "F", "G", "H", "I">>
Headers == <<"Email", "Normalized Email", "Source", "Status", "Valid", "Reason">>

\* the summaryData of both generators: label and number
SummaryData(sm) ==
    << <<"Total Emails in First File", sm.TotalEmailsFirstFile>>,
       <<"Total Emails in Second File", sm.TotalEmailsSecondFile>>,
       <<"Valid Emails in First File", sm.ValidEmailsFirstFile>>,
       <<"Valid Emails in Second File", sm.ValidEmailsSecondFile>>,
       <<"Matching Emails", sm.MatchingCount>>,
       <<"Emails Missing in First File", sm.MissingInFirstCount>>,
       <<"Emails Missing in Second File", sm.MissingInSecondCount>>,
       <<"Disposable Emails", sm.DisposableEmailsCount>> >>

\* the record one CSV loop writes for an entry
CSVRecord(entry, source, status) ==
    <<entry.Email, entry.NormalizedEmail, source, status, fmtBool(entry.IsValid),
      entry.Reason>>

\* the six SetCellValue calls one spreadsheet loop makes for an entry
SetRowCells(sheet, row, entry, source, status) ==
    LET new == ( <<"A", row>> :> entry.Email
              @@ <<"B", row>> :> entry.NormalizedEmail
              @@ <<"C", row>> :> source
              @@ <<"D", row>> :> status
              @@ <<"E", row>> :> fmtBool(entry.IsValid)
              @@ <<"I", row>> :> entry.Reason )
    IN  new @@ sheet

ReportIdle ==
    /\ oext = ".csv"
    /\ oMatching = <<>>
    /\ oMissingInFirst = <<>>
    /\ oMissingInSecond = <<>>
    /\ oSummary = NoResult
    /\ opc = "off"
    /\ oi = 0
    /\ orow = 0
    /\ csvOut = <<>>
    /\ sheetOut = EmptyMap
    /\ summaryOut = EmptyMap
    /\ oret = NoResult

\* generateEnhancedOutputFile entered
InitReport ==
    /\ oext \in OutputExtensions
    /\ oMatching \in SeqsUpTo(ReportEntries, MaxSection)
    /\ oMissingInFirst \in SeqsUpTo(ReportEntries, MaxSection)
    /\ oMissingInSecond \in SeqsUpTo(ReportEntries, MaxSection)
    /\ oSummary =
         [TotalEmailsFirstFile  |-> Len(oMatching) + Len(oMissingInSecond),
          TotalEmailsSecondFile |-> Len(oMatching) + Len(oMissingInFirst),
          ValidEmailsFirstFile  |-> CountValid(oMatching) + CountValid(oMissingInSecond),
          ValidEmailsSecondFile |-> CountValid(oMatching) + CountValid(oMissingInFirst),
          MatchingCount         |-> Len(oMatching),
          MissingInFirstCount   |-> Len(oMissingInFirst),
          MissingInSecondCount  |-> Len(oMissingInSecond),
          DisposableEmailsCount |-> 0,
          ProcessingTimeSeconds |-> 0]
    /\ opc = "dispatch"
    /\ oi = 0
    /\ orow = 0
    /\ csvOut = <<>>
    /\ sheetOut = EmptyMap
    /\ summaryOut = EmptyMap
    /\ oret = NoResult

\* generateEnhancedOutputFile: switch ext
OutputDispatch ==
    /\ opc = "dispatch"
    /\ IF oext = ".csv" THEN opc' = "csvcreate" /\ UNCHANGED oret
       ELSE IF oext \in {".xlsx", ".xls"} THEN opc' = "xlsnew" /\ UNCHANGED oret
       ELSE opc' = "returned" /\ oret' = "unsupported output format"
    /\ UNCHANGED <<oext, oMatching, oMissingInFirst, oMissingInSecond, oSummary,
                   oi, orow, csvOut, sheetOut, summaryOut>>

\* os.Create(outputPath), csv.NewWriter
CSVCreate ==
    /\ opc = "csvcreate"
    /\ \E ok \in BOOLEAN :
         IF ok THEN opc' = "csvheader" /\ UNCHANGED oret
         ELSE opc' = "returned" /\ oret' = "create failed"
    /\ UNCHANGED <<oext, oMatching, oMissingInFirst, oMissingInSecond, oSummary,
                   oi, orow, csvOut, sheetOut, summaryOut>>

\* writer.Write(header)
CSVWriteHeader ==
    /\ opc = "csvheader"
    /\ \E ok \in BOOLEAN :
         IF ok
         THEN /\ csvOut' = Append(csvOut, Headers)
              /\ opc' = "csvmatching"
              /\ oi' = 1
              /\ UNCHANGED oret
         ELSE /\ opc' = "returned"
              /\ oret' = "write failed"
              /\ UNCHANGED <<csvOut, oi>>
    /\ UNCHANGED <<oext, oMatching, oMissingInFirst, oMissingInSecond, oSummary,
                   orow, sheetOut, summaryOut>>

\* one iteration of "for _, entry := range matching", or its end
CSVWriteMatching ==
    /\ opc = "csvmatching"
    /\ IF oi <= Len(oMatching)
       THEN \E ok \in BOOLEAN :
              IF ok
              THEN /\ csvOut' = Append(csvOut, CSVRecord(oMatching[oi], "Both", "Matching"))
                   /\ oi' = oi + 1
                   /\ UNCHANGED <<opc, oret>>
              ELSE /\ opc' = "returned"
                   /\ oret' = "write failed"
                   /\ UNCHANGED <<csvOut, oi>>
       ELSE /\ opc' = "csvmissingfirst"
            /\ oi' = 1
            /\ UNCHANGED <<csvOut, oret>>
    /\ UNCHANGED <<oext, oMatching, oMissingInFirst, oMissingInSecond, oSummary,
                   orow, sheetOut, summaryOut>>

\* CSVWriteMissingInFirst with the tags of the other missing section
CSVWriteMissingInFirstSwappedTags ==
    /\ opc = "csvmissingfirst"
    /\ IF oi <= Len(oMissingInFirst)
       THEN \E ok \in BOOLEAN :
              IF ok
              THEN /\ csvOut' = Append(csvOut, CSVRecord(oMissingInFirst[oi],
                                        "First File Only", "Missing in Second File"))
                   /\ oi' = oi + 1
                   /\ UNCHANGED <<opc, oret>>
              ELSE /\ opc' = "returned"
                   /\ oret' = "write failed"
                   /\ UNCHANGED <<csvOut, oi>>
       ELSE /\ opc' = "csvmissingsecond"
            /\ oi' = 1
            /\ UNCHANGED <<csvOut, oret>>
    /\ UNCHANGED <<oext, oMatching, oMissingInFirst, oMissingInSecond, oSummary,
                   orow, sheetOut, summaryOut>>

\* one iteration of "for _, entry := range missingInFirst", or its end
CSVWriteMissingInFirst ==
    /\ opc = "csvmissingfirst"
    /\ IF oi <= Len(oMissingInFirst)
       THEN \E ok \in BOOLEAN :
              IF ok
              THEN /\ csvOut' = Append(csvOut, CSVRecord(oMissingInFirst[oi],
                                        "Second File Only", "Missing in First File"))
                   /\ oi' = oi + 1
                   /\ UNCHANGED <<opc, oret>>
              ELSE /\ opc' = "returned"
                   /\ oret' = "write failed"
                   /\ UNCHANGED <<csvOut, oi>>
       ELSE /\ opc' = "csvmissingsecond"
            /\ oi' = 1
            /\ UNCHANGED <<csvOut, oret>>
    /\ UNCHANGED <<oext, oMatching, oMissingInFirst, oMissingInSecond, oSummary,
                   orow, sheetOut, summaryOut>>

\* one iteration of "for _, entry := range missingInSecond", or its end
CSVWriteMissingInSecond ==
    /\ opc = "csvmissingsecond"
    /\ IF oi <= Len(oMissingInSecond)
       THEN \E ok \in BOOLEAN :
              IF ok
              THEN /\ csvOut' = Append(csvOut, CSVRecord(oMissingInSecond[oi],
                                        "First File Only", "Missing in Second File"))
                   /\ oi' = oi + 1
                   /\ UNCHANGED <<opc, oret>>
              ELSE /\ opc' = "returned"
                   /\ oret' = "write failed"
                   /\ UNCHANGED <<csvOut, oi>>
       ELSE /\ opc' = "csvsummary"
            /\ oi' = 1
            /\ UNCHANGED <<csvOut, oret>>
    /\ UNCHANGED <<oext, oMatching, oMissingInFirst, oMissingInSecond, oSummary,
                   orow, sheetOut, summaryOut>>

\* the summary records: "", "Summary", "Metric"/"Value", the eight metrics
CSVWriteSummary ==
    /\ opc = "csvsummary"
    /\ \E ok \in BOOLEAN :
         IF ok
         THEN /\ csvOut' = csvOut \o << <<"">>, <<"Summary">>, <<"Metric", "Value">> >>
                             \o [k \in 1..Len(SummaryData(oSummary)) |->
                                   <<SummaryData(oSummary)[k][1],
                                     Itoa(SummaryData(oSummary)[k][2])>>]
              /\ oret' = "nil"
         ELSE /\ oret' = "write failed"
              /\ UNCHANGED csvOut
    /\ opc' = "returned"
    /\ UNCHANGED <<oext, oMatching, oMissingInFirst, oMissingInSecond, oSummary,
                   oi, orow, sheetOut, summaryOut>>

\* excelize.NewFile, f.NewSheet("Validation Results"), f.NewStyle
ExcelNewFile ==
    /\ opc = "xlsnew"
    /\ \E ok \in BOOLEAN :
         IF ok THEN opc' = "xlsheader" /\ UNCHANGED oret
         ELSE opc' = "returned" /\ oret' = "new sheet failed"
    /\ UNCHANGED <<oext, oMatching, oMissingInFirst, oMissingInSecond, oSummary,
                   oi, orow, csvOut, sheetOut, summaryOut>>

\* for i, header := range headers { SetCellValue(sheet, string('A'+i)+"1", header) }
\* and row := 2
ExcelWriteHeader ==
    /\ opc = "xlsheader"
    /\ sheetOut' =
         [c \in { <<ColumnLetters[i], 1>> : i \in 1..Len(Headers) } |->
            Headers[CHOOSE i \in 1..Len(Headers) : ColumnLetters[i] = c[1]]] @@ sheetOut
    /\ orow' = 2
    /\ oi' = 1
    /\ opc' = "xlsmatching"
    /\ UNCHANGED <<oext, oMatching, oMissingInFirst, oMissingInSecond, oSummary,
                   csvOut, summaryOut, oret>>

\* one iteration of "for _, entry := range matching", or its end
ExcelWriteMatching ==
    /\ opc = "xlsmatching"
    /\ IF oi <= Len(oMatching)
       THEN /\ sheetOut' = SetRowCells(sheetOut, orow, oMatching[oi],
                                        "Both", "Matching")
            /\ orow' = orow + 1
            /\ oi' = oi + 1
            /\ UNCHANGED opc
       ELSE /\ opc' = "xlsmissingfirst"
            /\ oi' = 1
            /\ UNCHANGED <<sheetOut, orow>>
    /\ UNCHANGED <<oext, oMatching, oMissingInFirst, oMissingInSecond, oSummary,
                   csvOut, summaryOut, oret>>

\* one iteration of "for _, entry := range missingInFirst", or its end
ExcelWriteMissingInFirst ==
    /\ opc = "xlsmissingfirst"
    /\ IF oi <= Len(oMissingInFirst)
       THEN /\ sheetOut' = SetRowCells(sheetOut, orow, oMissingInFirst[oi],
                                        "Second File Only", "Missing in First File")
            /\ orow' = orow + 1
            /\ oi' = oi + 1
            /\ UNCHANGED opc
       ELSE /\ opc' = "xlsmissingsecond"
            /\ oi' = 1
            /\ UNCHANGED <<sheetOut, orow>>
    /\ UNCHANGED <<oext, oMatching, oMissingInFirst, oMissingInSecond, oSummary,
                   csvOut, summaryOut, oret>>

\* one iteration of "for _, entry := range missingInSecond", or its end
ExcelWriteMissingInSecond ==
    /\ opc = "xlsmissingsecond"
    /\ IF oi <= Len(oMissingInSecond)
       THEN /\ sheetOut' = SetRowCells(sheetOut, orow, oMissingInSecond[oi],
                                        "First File Only", "Missing in Second File")
            /\ orow' = orow + 1
            /\ oi' = oi + 1
            /\ UNCHANGED opc
       ELSE /\ opc' = "xlssummary"
            /\ oi' = 1
            /\ UNCHANGED <<sheetOut, orow>>
    /\ UNCHANGED <<oext, oMatching, oMissingInFirst, oMissingInSecond, oSummary,
                   csvOut, summaryOut, oret>>

\* f.NewSheet("Summary"), its header cells and the eight metrics
ExcelWriteSummary ==
    /\ opc = "xlssummary"
    /\ \E ok \in BOOLEAN :
         IF ok
         THEN /\ summaryOut' =
                   ( <<"A", 1>> :> "Metric" @@ <<"B", 1>> :> "Value" )
                   @@ [c \in { <<"A", i + 1>> : i \in 1..Len(SummaryData(oSummary)) } |->
                         SummaryData(oSummary)[c[2] - 1][1]]
                   @@ [c \in { <<"B", i + 1>> : i \in 1..Len(SummaryData(oSummary)) } |->
                         SummaryData(oSummary)[c[2] - 1][2]]
              /\ opc' = "xlssave"
              /\ UNCHANGED oret
         ELSE /\ opc' = "returned"
              /\ oret' = "new sheet failed"
              /\ UNCHANGED summaryOut
    /\ UNCHANGED <<oext, oMatching, oMissingInFirst, oMissingInSecond, oSummary,
                   oi, orow, csvOut, sheetOut>>

\* f.SaveAs(outputPath)
ExcelSave ==
    /\ opc = "xlssave"
    /\ \E ok \in BOOLEAN : oret' = IF ok THEN "nil" ELSE "save failed"
    /\ opc' = "returned"
    /\ UNCHANGED <<oext, oMatching, oMissingInFirst, oMissingInSecond, oSummary,
                   oi, orow, csvOut, sheetOut, summaryOut>>

(***************************************************************************)
(* Specifications.                                                         *)
(***************************************************************************)
vars == <<batchVars, cmpVars, pureVars, cacheVars, pipeVars, extractVars,
          reportVars>>

\* one call of compareEmailEntries inside ValidateEmails
Init == InitCompare /\ BatchIdle /\ PureIdle /\ CacheIdle /\ PipeIdle /\ ExtractIdle /\ ReportIdle

Next ==
    \/ (CompareFirst /\ UNCHANGED <<pureVars, cacheVars, pipeVars, extractVars, reportVars>>)
    \/ (CompareSecond /\ UNCHANGED <<pureVars, cacheVars, pipeVars, extractVars, reportVars>>)
    \/ (CompareRange /\ UNCHANGED <<pureVars, cacheVars, pipeVars, extractVars, reportVars>>)
    \/ (CompareCounts /\ UNCHANGED <<pureVars, cacheVars, pipeVars, extractVars, reportVars>>)
    \/ (GenerateOutput /\ UNCHANGED <<pureVars, cacheVars, pipeVars, extractVars, reportVars>>)
    \/ (BuildResult /\ UNCHANGED <<pureVars, cacheVars, pipeVars, extractVars, reportVars>>)

Spec == Init /\ [][Next]_vars

\* one call of ValidateEmailsBatch
InitB == InitBatch /\ CompareIdle /\ PureIdle /\ CacheIdle /\ PipeIdle /\ ExtractIdle /\ ReportIdle

NextBatch ==
    \/ (MainSpawn /\ UNCHANGED <<cmpVars, pureVars, cacheVars, pipeVars, extractVars, reportVars>>)
    \/ (MainSend /\ UNCHANGED <<cmpVars, pureVars, cacheVars, pipeVars, extractVars, reportVars>>)
    \/ (MainClose /\ UNCHANGED <<cmpVars, pureVars, cacheVars, pipeVars, extractVars, reportVars>>)
    \/ (MainWait /\ UNCHANGED <<cmpVars, pureVars, cacheVars, pipeVars, extractVars, reportVars>>)
    \/ (MainReturn /\ UNCHANGED <<cmpVars, pureVars, cacheVars, pipeVars, extractVars, reportVars>>)
    \/ \E w \in Workers :
         \/ (WorkerRecv(w) /\ UNCHANGED <<cmpVars, pureVars, cacheVars, pipeVars, extractVars, reportVars>>)
         \/ (WorkerGet(w) /\ UNCHANGED <<cmpVars, pureVars, cacheVars, pipeVars, extractVars, reportVars>>)
         \/ (WorkerValidate(w) /\ UNCHANGED <<cmpVars, pureVars, cacheVars, pipeVars, extractVars, reportVars>>)
         \/ (WorkerStore(w) /\ UNCHANGED <<cmpVars, pureVars, cacheVars, pipeVars, extractVars, reportVars>>)
         \/ (WorkerExit(w) /\ UNCHANGED <<cmpVars, pureVars, cacheVars, pipeVars, extractVars, reportVars>>)

SpecBatch == InitB /\ [][NextBatch]_vars

\* single calls of NormalizeEmail and ValidateEmailDetailed
InitP == InitPure /\ BatchIdle /\ CompareIdle /\ CacheIdle /\ PipeIdle /\ ExtractIdle /\ ReportIdle

NextPure ==
    \/ (CallNormalize /\ UNCHANGED <<batchVars, cmpVars, cacheVars, pipeVars, extractVars, reportVars>>)
    \/ (CallNormalizeAgain /\ UNCHANGED <<batchVars, cmpVars, cacheVars, pipeVars, extractVars, reportVars>>)
    \/ (CallValidate /\ UNCHANGED <<batchVars, cmpVars, cacheVars, pipeVars, extractVars, reportVars>>)

SpecPure == InitP /\ [][NextPure]_vars

\* goroutines calling one Cache
InitC == InitCache /\ BatchIdle /\ CompareIdle /\ PureIdle /\ PipeIdle /\ ExtractIdle /\ ReportIdle

NextCache ==
    \/ (Tick /\ UNCHANGED <<batchVars, cmpVars, pureVars, pipeVars, extractVars, reportVars>>)
    \/ (RemovalLock /\ UNCHANGED <<batchVars, cmpVars, pureVars, pipeVars, extractVars, reportVars>>)
    \/ (RemovalDelete /\ UNCHANGED <<batchVars, cmpVars, pureVars, pipeVars, extractVars, reportVars>>)
    \/ \E g \in Callers :
         \/ (SetLock(g) /\ UNCHANGED <<batchVars, cmpVars, pureVars, pipeVars, extractVars, reportVars>>)
         \/ (SetStore(g) /\ UNCHANGED <<batchVars, cmpVars, pureVars, pipeVars, extractVars, reportVars>>)
         \/ (GetRLock(g) /\ UNCHANGED <<batchVars, cmpVars, pureVars, pipeVars, extractVars, reportVars>>)
         \/ (GetLookup(g) /\ UNCHANGED <<batchVars, cmpVars, pureVars, pipeVars, extractVars, reportVars>>)
         \/ (GetCheck(g) /\ UNCHANGED <<batchVars, cmpVars, pureVars, pipeVars, extractVars, reportVars>>)
         \/ (DeleteLock(g) /\ UNCHANGED <<batchVars, cmpVars, pureVars, pipeVars, extractVars, reportVars>>)
         \/ (DeleteBody(g) /\ UNCHANGED <<batchVars, cmpVars, pureVars, pipeVars, extractVars, reportVars>>)
         \/ (ClearLock(g) /\ UNCHANGED <<batchVars, cmpVars, pureVars, pipeVars, extractVars, reportVars>>)
         \/ (ClearBody(g) /\ UNCHANGED <<batchVars, cmpVars, pureVars, pipeVars, extractVars, reportVars>>)

SpecCache == InitC /\ [][NextCache]_vars

\* one call of ValidateEmails
InitV == InitPipe /\ CompareIdle /\ BatchIdle /\ PureIdle /\ CacheIdle /\ ExtractIdle /\ ReportIdle

NextPipe ==
    \/ (PipeMkdir /\ UNCHANGED <<batchVars, pureVars, cacheVars, extractVars, reportVars>>)
    \/ (PipeSpawnExtract /\ UNCHANGED <<batchVars, pureVars, cacheVars, extractVars, reportVars>>)
    \/ (PipeWaitExtract /\ UNCHANGED <<batchVars, pureVars, cacheVars, extractVars, reportVars>>)
    \/ (PipeRecvExtract /\ UNCHANGED <<batchVars, pureVars, cacheVars, extractVars, reportVars>>)
    \/ (PipeCheckErrors /\ UNCHANGED <<batchVars, pureVars, cacheVars, extractVars, reportVars>>)
    \/ (PipeSpawnValidate /\ UNCHANGED <<batchVars, pureVars, cacheVars, extractVars, reportVars>>)
    \/ (PipeWaitValidate /\ UNCHANGED <<batchVars, pureVars, cacheVars, extractVars, reportVars>>)
    \/ (PipeRecvValidate /\ UNCHANGED <<batchVars, pureVars, cacheVars, extractVars, reportVars>>)
    \/ (PipeReturn /\ UNCHANGED <<batchVars, pureVars, cacheVars, extractVars, reportVars>>)
    \/ (CompareFirst /\ UNCHANGED <<pureVars, cacheVars, pipeVars, extractVars, reportVars>>)
    \/ (CompareSecond /\ UNCHANGED <<pureVars, cacheVars, pipeVars, extractVars, reportVars>>)
    \/ (CompareRange /\ UNCHANGED <<pureVars, cacheVars, pipeVars, extractVars, reportVars>>)
    \/ (CompareCounts /\ UNCHANGED <<pureVars, cacheVars, pipeVars, extractVars, reportVars>>)
    \/ (GenerateOutput /\ UNCHANGED <<pureVars, cacheVars, pipeVars, extractVars, reportVars>>)
    \/ (BuildResult /\ UNCHANGED <<pureVars, cacheVars, pipeVars, extractVars, reportVars>>)
    \/ \E f \in Files :
         \/ (ExtractRun(f) /\ UNCHANGED <<batchVars, pureVars, cacheVars, extractVars, reportVars>>)
         \/ (ExtractSend(f) /\ UNCHANGED <<batchVars, pureVars, cacheVars, extractVars, reportVars>>)
         \/ (ExtractDone(f) /\ UNCHANGED <<batchVars, pureVars, cacheVars, extractVars, reportVars>>)
         \/ (ValidateRun(f) /\ UNCHANGED <<batchVars, pureVars, cacheVars, extractVars, reportVars>>)
         \/ (ValidateSend(f) /\ UNCHANGED <<batchVars, pureVars, cacheVars, extractVars, reportVars>>)
         \/ (ValidateDone(f) /\ UNCHANGED <<batchVars, pureVars, cacheVars, extractVars, reportVars>>)

SpecPipe == InitV /\ [][NextPipe]_vars

\* ValidateEmailsBatch on batches of every length up to MaxSpawn: the start of
\* the workers for all of them, the rest of the call for the small ones
InitS == InitSpawn /\ CompareIdle /\ PureIdle /\ CacheIdle /\ PipeIdle /\ ExtractIdle /\ ReportIdle

NextSpawn ==
    \/ (MainSpawn /\ UNCHANGED <<cmpVars, pureVars, cacheVars, pipeVars, extractVars, reportVars>>)
    \/ (SmallBatch /\ MainSend /\ UNCHANGED <<cmpVars, pureVars, cacheVars, pipeVars, extractVars, reportVars>>)
    \/ (SmallBatch /\ MainClose /\ UNCHANGED <<cmpVars, pureVars, cacheVars, pipeVars, extractVars, reportVars>>)
    \/ (SmallBatch /\ MainWait /\ UNCHANGED <<cmpVars, pureVars, cacheVars, pipeVars, extractVars, reportVars>>)
    \/ (SmallBatch /\ MainReturn /\ UNCHANGED <<cmpVars, pureVars, cacheVars, pipeVars, extractVars, reportVars>>)
    \/ \E w \in Workers :
         \/ (SmallBatch /\ WorkerRecv(w) /\ UNCHANGED <<cmpVars, pureVars, cacheVars, pipeVars, extractVars, reportVars>>)
         \/ (SmallBatch /\ WorkerGet(w) /\ UNCHANGED <<cmpVars, pureVars, cacheVars, pipeVars, extractVars, reportVars>>)
         \/ (SmallBatch /\ WorkerValidate(w) /\ UNCHANGED <<cmpVars, pureVars, cacheVars, pipeVars, extractVars, reportVars>>)
         \/ (SmallBatch /\ WorkerStore(w) /\ UNCHANGED <<cmpVars, pureVars, cacheVars, pipeVars, extractVars, reportVars>>)
         \/ (SmallBatch /\ WorkerExit(w) /\ UNCHANGED <<cmpVars, pureVars, cacheVars, pipeVars, extractVars, reportVars>>)

SpecSpawn == InitS /\ [][NextSpawn]_vars

\* one call of extractEmails
InitE ==
    InitExtract /\ BatchIdle /\ CompareIdle /\ PureIdle /\ CacheIdle /\ PipeIdle
        /\ ReportIdle

NextExtract ==
    \/ (ExtractDispatch /\ UNCHANGED <<batchVars, cmpVars, pureVars, cacheVars, pipeVars, reportVars>>)
    \/ (CSVHeader /\ UNCHANGED <<batchVars, cmpVars, pureVars, cacheVars, pipeVars, reportVars>>)
    \/ (CSVRow /\ UNCHANGED <<batchVars, cmpVars, pureVars, cacheVars, pipeVars, reportVars>>)
    \/ (ExcelHeader /\ UNCHANGED <<batchVars, cmpVars, pureVars, cacheVars, pipeVars, reportVars>>)
    \/ (ExcelRow /\ UNCHANGED <<batchVars, cmpVars, pureVars, cacheVars, pipeVars, reportVars>>)

SpecExtract == InitE /\ [][NextExtract]_vars

\* one call of generateEnhancedOutputFile
InitR ==
    InitReport /\ BatchIdle /\ CompareIdle /\ PureIdle /\ CacheIdle /\ PipeIdle
        /\ ExtractIdle

NextReport ==
    \/ (OutputDispatch /\ UNCHANGED <<batchVars, cmpVars, pureVars, cacheVars, pipeVars, extractVars>>)
    \/ (CSVCreate /\ UNCHANGED <<batchVars, cmpVars, pureVars, cacheVars, pipeVars, extractVars>>)
    \/ (CSVWriteHeader /\ UNCHANGED <<batchVars, cmpVars, pureVars, cacheVars, pipeVars, extractVars>>)
    \/ (CSVWriteMatching /\ UNCHANGED <<batchVars, cmpVars, pureVars, cacheVars, pipeVars, extractVars>>)
    \/ (CSVWriteMissingInFirst /\ UNCHANGED <<batchVars, cmpVars, pureVars, cacheVars, pipeVars, extractVars>>)
    \/ (CSVWriteMissingInSecond /\ UNCHANGED <<batchVars, cmpVars, pureVars, cacheVars, pipeVars, extractVars>>)
    \/ (CSVWriteSummary /\ UNCHANGED <<batchVars, cmpVars, pureVars, cacheVars, pipeVars, extractVars>>)
    \/ (ExcelNewFile /\ UNCHANGED <<batchVars, cmpVars, pureVars, cacheVars, pipeVars, extractVars>>)
    \/ (ExcelWriteHeader /\ UNCHANGED <<batchVars, cmpVars, pureVars, cacheVars, pipeVars, extractVars>>)
    \/ (ExcelWriteMatching /\ UNCHANGED <<batchVars, cmpVars, pureVars, cacheVars, pipeVars, extractVars>>)
    \/ (ExcelWriteMissingInFirst /\ UNCHANGED <<batchVars, cmpVars, pureVars, cacheVars, pipeVars, extractVars>>)
    \/ (ExcelWriteMissingInSecond /\ UNCHANGED <<batchVars, cmpVars, pureVars, cacheVars, pipeVars, extractVars>>)
    \/ (ExcelWriteSummary /\ UNCHANGED <<batchVars, cmpVars, pureVars, cacheVars, pipeVars, extractVars>>)
    \/ (ExcelSave /\ UNCHANGED <<batchVars, cmpVars, pureVars, cacheVars, pipeVars, extractVars>>)

SpecReport == InitR /\ [][NextReport]_vars

\* one call of ValidateEmailsBatch or one call of ValidateEmails, where a
\* goroutine that can take a step is not held back for ever
InitL == InitB \/ InitV

NextLive == NextBatch \/ NextPipe

\* the positions of the goroutines: every step changes one of them
batchPcs == <<bpc, mainI, jobs, wpc>>
pipePcs == <<vpc, xpc, ypc, cpc, ci, mapTodo>>

SpecLive ==
    InitL /\ [][NextLive]_vars /\ WF_batchPcs(NextBatch) /\ WF_pipePcs(NextPipe)

(***************************************************************************)
(* Properties of utils.ValidateEmailsBatch (checked under SpecBatch).      *)
(***************************************************************************)
BatchDone == bpc = "done"

\* C1: whatever the scheduling of the workers, ValidateEmailsBatch(xs)
\* returns a sequence as long as xs whose element i is the result of
\* ValidateEmailDetailed(xs[i]) called on its own.
C1_BatchIsPointwiseValidate ==
    BatchDone =>
        /\ Len(returned) = Len(emails)
        /\ \A k \in 1..Len(emails) : returned[k] = ValidateEmailDetailed(emails[k])

\* two different addresses, the second one handled by the first worker and
\* the first one by the second worker
C1_Witness ==
    /\ BatchDone
    /\ Len(emails) = 2
    /\ emails[1] # emails[2]
    /\ widx[0] = 1 /\ processedCount[0] = 1
    /\ widx[1] = 0 /\ processedCount[1] = 1

\* C2 as stated: entry i of the batch output carries exactly the string
\* xs[i] in its field Email.
C2_EmailIsInput ==
    BatchDone => \A k \in 1..Len(emails) : returned[k].Email = emails[k]

\* C2 amended: entry i of the batch output carries in its field Email the
\* string xs[i] with the surrounding white space trimmed.
C2_EmailIsTrimmedInput ==
    BatchDone =>
        /\ Len(returned) = Len(emails)
        /\ \A k \in 1..Len(emails) : returned[k].Email = TrimSpace(emails[k])

\* a batch of two addresses with a padded one in second place
C2_Witness ==
    /\ BatchDone
    /\ Len(emails) = 2
    /\ emails[1] # emails[2]
    /\ TrimSpace(emails[2]) # emails[2]
    /\ returned[2].Email # emails[2]

(***************************************************************************)
(* Properties of services.compareEmailEntries (checked under Spec).        *)
(***************************************************************************)
\* compareEmailEntries has returned its three partitions and its summary
Compared == cpc \in {"output", "respond", "failed", "done"}

KeysOf(entries) == { entries[k].NormalizedEmail : k \in 1..Len(entries) }

\* how many entries of a partition have the key
Occurrences(entries, key) ==
    Cardinality({ k \in 1..Len(entries) : entries[k].NormalizedEmail = key })

\* the last entry of the list that has the key
LastWithKey(entries, key) ==
    entries[CHOOSE k \in 1..Len(entries) :
              /\ entries[k].NormalizedEmail = key
              /\ \A j \in (k+1)..Len(entries) : entries[j].NormalizedEmail # key]

\* C3: every normalized key that occurs in both A and B appears exactly once
\* in the matching partition, also when it occurs several times in A or B.
C3_SharedKeyOnceInMatching ==
    Compared =>
        \A key \in KeysOf(firstEntries) \cap KeysOf(secondEntries) :
            Occurrences(matching, key) = 1

\* C4: every normalized key that occurs only in B appears exactly once in
\* the missing-in-first partition, also when it occurs several times in B.
C4_OnlyInBKeyOnceInMissingInFirst ==
    Compared =>
        \A key \in KeysOf(secondEntries) \ KeysOf(firstEntries) :
            Occurrences(missingInFirst, key) = 1

\* C5: every normalized key that occurs only in A appears exactly once in
\* the missing-in-second partition, also when it occurs several times in A,
\* and no key that occurs in B appears there.
C5_OnlyInAKeyOnceInMissingInSecond ==
    Compared =>
        /\ \A key \in KeysOf(firstEntries) \ KeysOf(secondEntries) :
              Occurrences(missingInSecond, key) = 1
        /\ KeysOf(missingInSecond) \cap KeysOf(secondEntries) = {}

\* A holds one key twice, B is not empty and does not hold that key
C5_Witness ==
    /\ Compared
    /\ Len(firstEntries) = 2
    /\ firstEntries[1].NormalizedEmail = firstEntries[2].NormalizedEmail
    /\ secondEntries # <<>>
    /\ firstEntries[1].NormalizedEmail \notin KeysOf(secondEntries)
    /\ Len(missingInSecond) = 1

\* C6: no normalized key appears in two of matching, missing-in-first and
\* missing-in-second.
C6_PartitionsDisjointByKey ==
    Compared =>
        /\ KeysOf(matching) \cap KeysOf(missingInFirst) = {}
        /\ KeysOf(matching) \cap KeysOf(missingInSecond) = {}
        /\ KeysOf(missingInFirst) \cap KeysOf(missingInSecond) = {}

\* a comparison that fills all three partitions
C6_Witness ==
    /\ Compared
    /\ matching # <<>>
    /\ missingInFirst # <<>>
    /\ missingInSecond # <<>>

\* C7: the summary counts equal the lengths of the three partitions when
\* compareEmailEntries returns, and still do in the summary of the result
\* ValidateEmails returns.
C7_SummaryCountsAreLengths ==
    /\ Compared =>
          /\ summary.MatchingCount = Len(matching)
          /\ summary.MissingInFirstCount = Len(missingInFirst)
          /\ summary.MissingInSecondCount = Len(missingInSecond)
    /\ cpc = "done" =>
          /\ result.Summary.MatchingCount = Len(matching)
          /\ result.Summary.MissingInFirstCount = Len(missingInFirst)
          /\ result.Summary.MissingInSecondCount = Len(missingInSecond)
          /\ result.Summary.MatchingCount = Len(result.MatchingEmails)
          /\ result.Summary.MissingInFirstCount = Len(result.MissingInFirstFile)
          /\ result.Summary.MissingInSecondCount = Len(result.MissingInSecondFile)

\* a result whose two missing counts differ and whose summary was touched
\* (the processing time) after the comparison
C7_Witness ==
    /\ cpc = "done"
    /\ result.Summary.ProcessingTimeSeconds = 1
    /\ Len(matching) = 1
    /\ Len(missingInFirst) = 1
    /\ Len(missingInSecond) = 0

\* C8: every entry of the matching partition is an entry of file A, the last
\* one in A's input order that has its normalized key.
C8_MatchIsLastEntryOfA ==
    (cpc = "second" \/ cpc = "range" \/ cpc = "counts" \/ Compared) =>
        \A k \in 1..Len(matching) :
            /\ matching[k].Source = "First File"
            /\ matching[k].NormalizedEmail \in KeysOf(firstEntries)
            /\ matching[k] = LastWithKey(firstEntries, matching[k].NormalizedEmail)

\* A holds one key under two spellings and B holds the key
C8_Witness ==
    /\ Compared
    /\ Len(firstEntries) = 2
    /\ firstEntries[1].NormalizedEmail = firstEntries[2].NormalizedEmail
    /\ firstEntries[1].Email # firstEntries[2].Email
    /\ matching # <<>>
    /\ matching[1].Email = firstEntries[2].Email
    /\ \E k \in 1..Len(secondEntries) : secondEntries[k].Email = firstEntries[1].Email

\* the entries of A that are the last of their key and whose key B lacks,
\* in A's input order
OnlyInAInInputOrder ==
    LET idx == { k \in 1..Len(firstEntries) :
                   /\ firstEntries[k].NormalizedEmail \notin KeysOf(secondEntries)
                   /\ \A j \in (k+1)..Len(firstEntries) :
                        firstEntries[j].NormalizedEmail # firstEntries[k].NormalizedEmail }
    IN  [k \in 1..Cardinality(idx) |->
           firstEntries[CHOOSE i \in idx : Cardinality({j \in idx : j < i}) = k - 1]]

\* C9: the missing-in-second partition lists its entries in file A's input
\* order, filtered to the keys absent from B (so that it is the same
\* sequence in every run on the same A and B).
C9_MissingInSecondInInputOrder ==
    Compared => missingInSecond = OnlyInAInInputOrder

\* what the pass over the first n entries of B has to have emitted
MatchingAfter(n) ==
    LET hits == SelectSeq(SubSeq(secondEntries, 1, n),
                          LAMBDA e : e.NormalizedEmail \in KeysOf(firstEntries))
    IN  [k \in 1..Len(hits) |-> LastWithKey(firstEntries, hits[k].NormalizedEmail)]

MissingInFirstAfter(n) ==
    SelectSeq(SubSeq(secondEntries, 1, n),
              LAMBDA e : e.NormalizedEmail \notin KeysOf(firstEntries))

\* C10: matching and missing-in-first follow file B's input order: after the
\* pass has handled the first n entries of B the two partitions hold exactly
\* what these n entries give, each in B's order, and so they do at the end.
C10_PartitionsFollowOrderOfB ==
    /\ cpc = "second" =>
          /\ matching = MatchingAfter(ci - 1)
          /\ missingInFirst = MissingInFirstAfter(ci - 1)
    /\ (cpc = "range" \/ cpc = "counts" \/ Compared) =>
          /\ matching = MatchingAfter(Len(secondEntries))
          /\ missingInFirst = MissingInFirstAfter(Len(secondEntries))

\* two matches of different keys that A holds in the opposite order
C10_Witness ==
    /\ Compared
    /\ Len(matching) = 2
    /\ matching[1].NormalizedEmail # matching[2].NormalizedEmail
    /\ Len(firstEntries) = 2
    /\ firstEntries[1].NormalizedEmail = matching[2].NormalizedEmail
    /\ firstEntries[2].NormalizedEmail = matching[1].NormalizedEmail

(***************************************************************************)
(* Properties of NormalizeEmail and ValidateEmailDetailed (under SpecPure).*)
(***************************************************************************)
\* the positions of '@' in a string
AtPositions(t) == { k \in 1..Len(t) : t[k] = "@" }

\* C11: NormalizeEmail is idempotent: normalizing a normalized address gives
\* the same address again.
C11_NormalizeIdempotent ==
    ppc \in {"renormalized", "validated"} => pNorm2 = pNorm

C13_ValidateKeyIsNormalize ==
    ppc = "validated" => pVal.NormalizedEmail = pNorm

\* an invalid padded gmail-like input whose key differs from its address
C13_Witness ==
    /\ ppc = "validated"
    /\ ~pVal.IsValid
    /\ pIn # TrimSpace(pIn)
    /\ pVal.NormalizedEmail # pVal.Email
    /\ pVal.NormalizedEmail # <<>>

\* what C14 says NormalizeEmail returns
GmailRule(x) ==
    LET t == ToLower(TrimSpace(x))
        at == CHOOSE k \in AtPositions(t) : TRUE
        local == SubSeq(t, 1, at - 1)
        nodots == SelectSeq(local, LAMBDA c : c # ".")
        plus == { k \in 1..Len(nodots) : nodots[k] = "+" }
        cut == CHOOSE k \in plus : \A j \in plus : k <= j
    IN  IF Cardinality(AtPositions(t)) = 1 /\ SubSeq(t, at + 1, Len(t)) = GmailDomain
        THEN (IF plus # {} /\ cut > 1 THEN SubSeq(nodots, 1, cut - 1) ELSE nodots)
             \o <<"@">> \o GmailDomain
        ELSE t

\* C14: for an address that, trimmed and lower-cased, has exactly one '@'
\* and the domain gmail.com, NormalizeEmail returns the local part without
\* its '.' characters, cut at its first '+' unless that '+' is in first
\* place, followed by "@gmail.com"; for every other address it returns the
\* trimmed, lower-cased input. " First.Last+promo@gmail.com " gives
\* "firstlast@gmail.com".
C14_GmailRule ==
    ppc # "idle" /\ ppc # "start" =>
        /\ pNorm = GmailRule(pIn)
        /\ pIn = PromoAddress =>
              pNorm = <<"f","i","r","s","t","l","a","s","t",
                        "@","g","m","a","i","l",".","c","o","m">>

\* the address of the example has been normalized
C14_Witness ==
    /\ ppc = "normalized"
    /\ pIn = PromoAddress
    /\ Len(pNorm) = 19

(***************************************************************************)
(* Properties of utils.Cache (checked under SpecCache).                    *)
(***************************************************************************)
\* C15: Cache.Get never returns a stale hit: a Get whose check happens after
\* the expiration time of the entry stored under the key at that instant
\* returns not-found, in every interleaving of Set, Get, Delete, Clear and
\* the deferred removals; a hit is the value of the stored entry.
C15_NoStaleHit ==
    \A g \in Callers :
        kret[g].isGet =>
            /\ (kret[g].stored /\ kret[g].at > kret[g].storedItem.expiration)
                   => ~kret[g].found
            /\ kret[g].found =>
                   /\ kret[g].stored
                   /\ kret[g].value = kret[g].storedItem.value

\* a Get that found the entry of a Set with a positive duration expired and
\* returned not-found, its removal still waiting
C15_Witness ==
    \E g \in Callers :
        /\ kret[g].isGet
        /\ kret[g].stored
        /\ kret[g].storedItem.expiration >= 1
        /\ kret[g].at > kret[g].storedItem.expiration
        /\ ~kret[g].found
        /\ pending[kret[g].key] > 0

(***************************************************************************)
(* Properties of services.ValidateEmails (checked under SpecPipe).         *)
(***************************************************************************)
\* C16: in every execution of ValidateEmails no validation goroutine runs
\* before both extraction goroutines have finished, and compareEmailEntries
\* and the report run only after both validation goroutines have finished,
\* so with no other goroutine of the pipeline still active.
C16_StagesJoined ==
    /\ (\E f \in Files : ypc[f] # "none") => \A f \in Files : xpc[f] = "done"
    /\ cpc # "idle" => \A f \in Files : xpc[f] = "done" /\ ypc[f] = "done"

\* the comparison running on two non-empty lists after both joins
C16_Witness ==
    /\ cpc = "range"
    /\ firstEntries # <<>>
    /\ secondEntries # <<>>
    /\ \A f \in Files : xpc[f] = "done" /\ ypc[f] = "done"

\* C17: when the extraction of either file fails, ValidateEmails starts no
\* validation, no comparison and no report, and returns an error with a nil
\* result; the error is the first file's when the first extraction failed
\* (also when both failed), the second file's otherwise.
C17_ExtractionFailureAborts ==
    (\E f \in Files : outcome[f].err # "nil") =>
        /\ \A f \in Files : ypc[f] = "none"
        /\ cpc = "idle"
        /\ result = NilResult
        /\ vpc = "returned" =>
             /\ ~vret.ok
             /\ vret.stage # "temp directory" =>
                  /\ vret.stage = IF outcome[1].err # "nil" THEN FileStage[1]
                                  ELSE FileStage[2]
                  /\ vret.cause = IF outcome[1].err # "nil" THEN outcome[1].err
                                  ELSE outcome[2].err

\* both extractions failed and the first file's error was returned
C17_Witness ==
    /\ \A f \in Files : outcome[f].err # "nil"
    /\ vpc = "returned"
    /\ ~vret.ok
    /\ vret.stage = FileStage[1]

(***************************************************************************)
(* Properties of the worker start-up of utils.ValidateEmailsBatch (checked *)
(* under SpecSpawn).                                                       *)
(***************************************************************************)
StartedWorkers == { w \in Workers : wpc[w] # "none" }

ValidatingWorkers == { w \in Workers : wpc[w] \in {"get", "validate", "store"} }

\* C18: ValidateEmailsBatch on n addresses starts exactly min(n, 10) workers:
\* never more while the start-up loop runs, exactly that many once it has
\* ended; never more than min(n, 10) validations are in progress at once, and
\* for n = 0 no worker is started.
C18_WorkersAreMinOfLenAndTen ==
    LET n == Len(emails) IN
    /\ Cardinality(StartedWorkers) <= min(n, 10)
    /\ bpc # "spawn" => Cardinality(StartedWorkers) = min(n, 10)
    /\ Cardinality(ValidatingWorkers) <= min(n, 10)
    /\ n = 0 => StartedWorkers = {}

\* a batch of more than ten addresses with its start-up loop ended
C18_Witness ==
    /\ Len(emails) > 10
    /\ bpc = "send"
    /\ Cardinality(StartedWorkers) = 10

(***************************************************************************)
(* Properties of services.extractEmails (checked under SpecExtract).       *)
(***************************************************************************)
\* a supported format, a file that opens, a header row, no read that fails
WellFormed ==
    /\ eext \in {".csv", ".xlsx"}
    /\ eopen
    /\ Len(erows) >= 1
    /\ \A k \in 1..Len(erows) : ~erows[k].err

\* the first-column values, unmodified and in row order, of the rows from
\* row k on whose first column is non-empty and contains '@'
RECURSIVE FirstColumnFrom(_)
FirstColumnFrom(k) ==
    IF k > Len(erows) THEN <<>>
    ELSE LET cells == erows[k].cells IN
         IF Len(cells) >= 1 /\ cells[1] # <<>> /\ (\E j \in 1..Len(cells[1]) : cells[1][j] = "@")
         THEN <<cells[1]>> \o FirstColumnFrom(k + 1)
         ELSE FirstColumnFrom(k + 1)

\* C19: on a well-formed input extractEmails returns without error, in row
\* order, exactly the unmodified first-column values of the rows after the
\* first whose first column is non-empty and contains '@'; the first row is
\* never inspected.
C19_ExtractFirstColumn ==
    (epc = "returned" /\ WellFormed) =>
        /\ eret.err = "nil"
        /\ eret.emails = FirstColumnFrom(2)

\* a header row that holds an address, then a row with an address between
\* spaces and a row without '@': only the second row's value is returned, as
\* it is
C19_Witness ==
    /\ epc = "returned"
    /\ WellFormed
    /\ Len(erows) = 3
    /\ erows[1].cells = << <<"a","@","x">> >>
    /\ erows[2].cells[1] = <<" ","a","@","x"," ">>
    /\ erows[3].cells = << <<"x">> >>
    /\ eret.emails = << <<" ","a","@","x"," ">> >>

(***************************************************************************)
(* Properties of the report generators (checked under SpecReport).         *)
(***************************************************************************)
\* the first five fields of the rows the report is to list: the sections in
\* the order matching, missing in first, missing in second, each in the order
\* of its partition
SectionRows(es, source, status) ==
    [k \in 1..Len(es) |->
       <<es[k].Email, es[k].NormalizedEmail, source, status,
         IF es[k].IsValid THEN "Yes" ELSE "No">>]

ExpectedRows ==
    SectionRows(oMatching, "Both", "Matching")
        \o SectionRows(oMissingInFirst, "Second File Only", "Missing in First File")
        \o SectionRows(oMissingInSecond, "First File Only", "Missing in Second File")

\* C20: a report that was written lists after its header row all matching
\* entries tagged "Both"/"Matching", then all missing-in-first entries tagged
\* "Second File Only"/"Missing in First File", then all missing-in-second
\* entries tagged "First File Only"/"Missing in Second File", each section in
\* the order of its partition and validity as "Yes"/"No"; the CSV records and
\* the spreadsheet rows are that same sequence, a function of the partitions.
C20_ReportRowsInPartitionOrder ==
    (opc = "returned" /\ oret = "nil") =>
        LET n == Len(ExpectedRows) IN
        IF oext = ".csv"
        THEN /\ Len(csvOut) >= n + 2
             /\ csvOut[1] = Headers
             /\ \A k \in 1..n : \A j \in 1..5 : csvOut[k + 1][j] = ExpectedRows[k][j]
             /\ csvOut[n + 2] = <<"">>
        ELSE /\ \A j \in 1..Len(Headers) : sheetOut[<<ColumnLetters[j], 1>>] = Headers[j]
             /\ \A k \in 1..n : \A j \in 1..5 :
                    sheetOut[<<ColumnLetters[j], k + 1>>] = ExpectedRows[k][j]
             /\ \A c \in DOMAIN sheetOut : c[2] <= n + 1

\* a spreadsheet report written from two different matching entries and two
\* non-empty missing sections
C20_Witness ==
    /\ opc = "returned"
    /\ oret = "nil"
    /\ oext = ".xlsx"
    /\ Len(oMatching) = 2
    /\ oMatching[1] # oMatching[2]
    /\ oMissingInFirst # <<>>
    /\ oMissingInSecond # <<>>

(***************************************************************************)
(* The job queue of utils.ValidateEmailsBatch (checked under SpecBatch).   *)
(***************************************************************************)
HoldsIndex(w) == wpc[w] \in {"get", "validate", "store"}

\* C21: every index 0..n-1 is received from the job queue by exactly one
\* worker and its slot of results is assigned exactly once: never twice
\* while the batch runs, no two workers hold the same index, and when the
\* caller reads the slots every worker has finished and every index has been
\* taken once and written once.
C21_EachIndexTakenAndWrittenOnce ==
    /\ \A k \in 1..Len(emails) :
           takes[k] <= 1 /\ writes[k] <= 1 /\ writes[k] <= takes[k]
    /\ \A w, v \in Workers :
           (w # v /\ HoldsIndex(w) /\ HoldsIndex(v)) => widx[w] # widx[v]
    /\ bpc \in {"count", "done"} =>
           /\ \A w \in Workers : wpc[w] \in {"none", "done"}
           /\ \A k \in 1..Len(emails) : takes[k] = 1 /\ writes[k] = 1

\* a batch of two addresses returned, each worker having written one slot
C21_Witness ==
    /\ BatchDone
    /\ Len(emails) = 2
    /\ processedCount[0] = 1
    /\ processedCount[1] = 1
    /\ \A k \in 1..2 : takes[k] = 1 /\ writes[k] = 1

(***************************************************************************)
(* Set followed by Get on utils.Cache (checked under SpecCache).           *)
(***************************************************************************)
\* C22: after Set(k, v, ttl) has returned, a Get(k) that runs not after the
\* new expiration time, with no Delete(k) and no Clear returned in between,
\* returns (v, true), whatever other Gets and their deferred removals do.
C22_GetAfterSetHits ==
    \A g \in Callers :
        (kret[g].isGet /\ kret[g].set.live
             /\ kret[g].at <= kret[g].set.item.expiration)
            => kret[g].found /\ kret[g].value = kret[g].set.item.value

(***************************************************************************)
(* Termination of ValidateEmailsBatch and of the fork/join phases of       *)
(* ValidateEmails (checked under SpecLive).                                *)
(***************************************************************************)
\* the producer finds room in jobs for every index it sends
ProducerNeverBlocks ==
    (bpc = "send" /\ mainI < Len(emails)) => Len(jobs) < Len(emails)

\* a goroutine about to send its result finds its channel empty
ResultSendNeverBlocks ==
    \A f \in Files :
        /\ xpc[f] = "send" => Len(fileCh[f]) < 1
        /\ ypc[f] = "send" => Len(validationCh[f]) < 1

\* C23: under fair scheduling ValidateEmailsBatch returns for every input
\* length: the producer never blocks on the queue, the queue is closed after
\* the last send, every worker leaves its loop and wg.Wait returns; and
\* ValidateEmails returns, its goroutines never blocking on their result
\* channels.
C23_Terminates ==
    /\ [](ProducerNeverBlocks /\ ResultSendNeverBlocks)
    /\ [](bpc \in {"wait", "count", "done"} => jobsClosed)
    /\ (bpc = "spawn") ~> (bpc = "done" /\ wgCount = 0
                             /\ \A w \in Workers : wpc[w] \in {"none", "done"})
    /\ (vpc = "mkdir") ~> (vpc = "returned")

\* a batch of two addresses returned: queue closed and drained, both workers
\* out of their loops
C23_Witness ==
    /\ bpc = "done"
    /\ Len(emails) = 2
    /\ jobsClosed
    /\ jobs = <<>>
    /\ wgCount = 0
    /\ \A w \in 0..1 : wpc[w] = "done"

(***************************************************************************)
(* Sizes of the partitions and of the summary of compareEmailEntries       *)
(* (checked under Spec).                                                   *)
(***************************************************************************)
\* how many entries of a list are valid
ValidCount(entries) == Cardinality({ k \in 1..Len(entries) : entries[k].IsValid })

\* C24: compareEmailEntries puts every entry of B into exactly one of
\* matching and missing-in-first, duplicates in B counted, so the two lengths
\* add up to len(B), which is summary.TotalEmailsSecondFile; and the valid
\* counts of the summary do not exceed the totals, the first total being
\* len(A).
C24_PartitionSizesAddUpToB ==
    /\ cpc = "second" => Len(matching) + Len(missingInFirst) = ci - 1
    /\ Compared =>
          /\ Len(matching) + Len(missingInFirst) = Len(secondEntries)
          /\ Len(secondEntries) = summary.TotalEmailsSecondFile
          /\ \A key \in KeysOf(secondEntries) :
                Occurrences(matching, key) + Occurrences(missingInFirst, key)
                    = Occurrences(secondEntries, key)
          /\ summary.TotalEmailsFirstFile = Len(firstEntries)
          /\ summary.ValidEmailsFirstFile = ValidCount(firstEntries)
          /\ summary.ValidEmailsFirstFile <= summary.TotalEmailsFirstFile
          /\ summary.ValidEmailsSecondFile = ValidCount(secondEntries)
          /\ summary.ValidEmailsSecondFile <= summary.TotalEmailsSecondFile

\* B holds one key twice in two spellings, A holds an invalid address
C24_Witness ==
    /\ Compared
    /\ Len(secondEntries) = 2
    /\ secondEntries[1].NormalizedEmail = secondEntries[2].NormalizedEmail
    /\ secondEntries[1].Email # secondEntries[2].Email
    /\ Len(matching) + Len(missingInFirst) = 2
    /\ summary.ValidEmailsFirstFile < summary.TotalEmailsFirstFile

(***************************************************************************)
(* Columns of the report rows (checked under SpecReport).                  *)
(***************************************************************************)
\* the entries in the order the report lists them
ReportedEntries == oMatching \o oMissingInFirst \o oMissingInSecond

\* what reading a cell of the written sheet gives: "" for a cell never set
CellValue(sheet, c) == IF c \in DOMAIN sheet THEN sheet[c] ELSE ""

\* C25: in both report variants each entry row holds its six fields in the
\* six consecutive columns under the headers Email, Normalized Email, Source,
\* Status, Valid, Reason; in particular the invalid-reason text of an entry
\* is in the column of the "Reason" header.
C25_SixFieldsUnderSixHeaders ==
    (opc = "returned" /\ oret = "nil") =>
        LET n == Len(ReportedEntries) IN
        IF oext = ".csv"
        THEN /\ csvOut[1] = Headers
             /\ \A k \in 1..n :
                   /\ Len(csvOut[k + 1]) = Len(Headers)
                   /\ \A j \in 1..5 : csvOut[k + 1][j] = ExpectedRows[k][j]
                   /\ csvOut[k + 1][6] = ReportedEntries[k].Reason
        ELSE /\ \A j \in 1..Len(Headers) : sheetOut[<<ColumnLetters[j], 1>>] = Headers[j]
             /\ \A k \in 1..n :
                   /\ \A j \in 1..5 :
                         sheetOut[<<ColumnLetters[j], k + 1>>] = ExpectedRows[k][j]
                   /\ CellValue(sheetOut, <<ColumnLetters[6], k + 1>>)
                         = ReportedEntries[k].Reason
             /\ \A c \in DOMAIN sheetOut :
                   \E j \in 1..Len(Headers) : c[1] = ColumnLetters[j]

====
